---- MODULE Spec2Model ----
(***************************************************************************)
(* Dispatch core of agent-swarm: the Store (tasks, inbox messages, channel *)
(* read state), the claim functions of src/be/db.ts, the stale-claim       *)
(* release functions, and the GET /api/poll resolver of src/http.ts.       *)
(* Every db function is one SQL statement sequence run synchronously, and  *)
(* the poll handler runs inside getDb().transaction: each is one atomic    *)
(* action here.                                                            *)
(***************************************************************************)
EXTENDS Integers, Sequences, FiniteSets, TLC

\* ---------------------------------------------------------------- bounds
MaxTaskIds == 2
MaxMsgs == 2
MaxTime == 3
MaxTimeout == 1
MaxLimit == 2
MaxCalls == 3
\* tasks, inbox messages and mentioned channels the producers create in one run
MaxRecords == 2
MaxPolls == 2
MaxWindows == 2
IterMod == 3
MaxRunnerRecords == 1
MaxLifecycleRecords == 1

\* agents.maxTasks INTEGER DEFAULT 1: tasks an agent runs at a time
AgentMaxTasks == 1

\* ---------------------------------------------------------------- domains
Agents == {"L", "W1", "W2"}
Channels == {"c1"}
TaskIds == 1..MaxTaskIds
MsgIds == 1..MaxMsgs
NoAgent == "none"
NoTime == -1
NoReason == "none"
\* cancellation reasons: one the caller gives, and the default of cancelTask(taskId)
DefaultReason == "Cancelled by user"
Reasons == {"r1", DefaultReason}
\* new Date(0): the lastReadAt a first claim writes
Epoch == 0

\* isLead flag of the agent row
IsLead(a) == a = "L"

VARIABLES
  tasks,      \* agent_tasks rows, by id ("absent": no row yet)
  inbox,      \* inbox_messages rows, by id, ids in creation order
  readState,  \* channel_read_state rows, by (agentId, channelId)
  mentions,   \* createdAt of the newest channel message mentioning the agent
  now,        \* the clock every new Date() reads
  lastOp,     \* the last poll or release call and what it returned
  agents,     \* agents rows, by id ("absent": no row yet)
  runner,     \* the runner process of one agent: runAgent's position and locals
  processedEvents  \* the GitHub handlers' deduplication cache: event key -> timestamp

vars == <<tasks, inbox, readState, mentions, now, lastOp, agents, runner, processedEvents>>

AbsentTask == [status |-> "absent", agentId |-> NoAgent, offeredTo |-> NoAgent,
               lastUpdatedAt |-> NoTime, finishedAt |-> NoTime, notifiedAt |-> NoTime,
               failureReason |-> NoReason]
AbsentMsg == [status |-> "absent", agentId |-> NoAgent, lastUpdatedAt |-> NoTime]
NoRow == [exists |-> FALSE, lastReadAt |-> NoTime, processingSince |-> NoTime]

NullTrigger == [type |-> "null", tasks |-> {}, msgs |-> {}, chans |-> {}, count |-> 0]
Trigger(ty, ts, ms, cs, n) == [type |-> ty, tasks |-> ts, msgs |-> ms, chans |-> cs, count |-> n]
\* a call that the claims tell apart by its result; every other call leaves NoOp
NoOp == [op |-> "other", agent |-> NoAgent, arg |-> 0, ret |-> NullTrigger]
Op(o, a, x, r) == [op |-> o, agent |-> a, arg |-> x, ret |-> r]

\* ---------------------------------------------------------------- tasks
\* createTaskExtended(task, {agentId?, offeredTo?}): offered when offeredTo is given,
\* pending when agentId is given, unassigned otherwise
createTaskExtended(T, t, agentId, offeredTo, n) ==
  [T EXCEPT ![t] = [status |-> IF offeredTo # NoAgent THEN "offered"
                               ELSE IF agentId # NoAgent THEN "pending" ELSE "unassigned",
                    agentId |-> IF offeredTo # NoAgent THEN NoAgent ELSE agentId,
                    offeredTo |-> offeredTo,
                    lastUpdatedAt |-> n, finishedAt |-> NoTime, notifiedAt |-> NoTime,
                    failureReason |-> NoReason]]

\* claimOfferedTask with the status test left out of both the check and the UPDATE
claimOfferedTaskAnyStatus(T, t, a, n) ==
  IF T[t].status = "absent" \/ T[t].offeredTo # a
  THEN [ret |-> {}, tasks |-> T]
  ELSE [ret |-> {t}, tasks |-> [T EXCEPT ![t].status = "reviewing", ![t].lastUpdatedAt = n]]

\* claimOfferedTask with the offeredTo test left out
claimOfferedTaskAnyAgent(T, t, a, n) ==
  IF T[t].status # "offered"
  THEN [ret |-> {}, tasks |-> T]
  ELSE [ret |-> {t}, tasks |-> [T EXCEPT ![t].status = "reviewing", ![t].lastUpdatedAt = n]]

\* claimOfferedTask(taskId, agentId): the row if it went offered -> reviewing, else null
claimOfferedTask(T, t, a, n) ==
  IF T[t].status = "absent" THEN [ret |-> {}, tasks |-> T]
  ELSE IF T[t].status # "offered" \/ T[t].offeredTo # a THEN [ret |-> {}, tasks |-> T]
  ELSE IF T[t].status = "offered"   \* UPDATE ... WHERE id = ? AND status = 'offered'
       THEN [ret |-> {t}, tasks |-> [T EXCEPT ![t].status = "reviewing", ![t].lastUpdatedAt = n]]
       ELSE [ret |-> {}, tasks |-> T]

\* acceptTask that records the owner but leaves the task under review
acceptTaskStaysReviewing(T, t, a, n) ==
  IF T[t].status = "absent" THEN [ret |-> {}, tasks |-> T]
  ELSE IF ~(T[t].status \in {"offered", "reviewing"}) \/ T[t].offeredTo # a
       THEN [ret |-> {}, tasks |-> T]
  ELSE [ret |-> {t},
        tasks |-> [T EXCEPT ![t].agentId = a, ![t].status = "reviewing", ![t].lastUpdatedAt = n]]

\* acceptTask(taskId, agentId): offered|reviewing -> pending, owner set
acceptTask(T, t, a, n) ==
  IF T[t].status = "absent" THEN [ret |-> {}, tasks |-> T]
  ELSE IF ~(T[t].status \in {"offered", "reviewing"}) \/ T[t].offeredTo # a
       THEN [ret |-> {}, tasks |-> T]
  ELSE [ret |-> {t},
        tasks |-> [T EXCEPT ![t].agentId = a, ![t].status = "pending", ![t].lastUpdatedAt = n]]

\* rejectTask with the status test left out of both the check and the UPDATE
rejectTaskAnyStatus(T, t, a, n) ==
  IF T[t].status = "absent" \/ T[t].offeredTo # a
  THEN [ret |-> {}, tasks |-> T]
  ELSE [ret |-> {t},
        tasks |-> [T EXCEPT ![t].status = "unassigned", ![t].offeredTo = NoAgent,
                            ![t].lastUpdatedAt = n]]

\* rejectTask(taskId, agentId): offered|reviewing -> unassigned, offer cleared
rejectTask(T, t, a, n) ==
  IF T[t].status = "absent" THEN [ret |-> {}, tasks |-> T]
  ELSE IF ~(T[t].status \in {"offered", "reviewing"}) \/ T[t].offeredTo # a
       THEN [ret |-> {}, tasks |-> T]
  ELSE [ret |-> {t},
        tasks |-> [T EXCEPT ![t].status = "unassigned", ![t].offeredTo = NoAgent,
                            ![t].lastUpdatedAt = n]]

\* startTask(taskId): UPDATE agent_tasks SET status = 'in_progress' WHERE id = ?
startTask(T, t, n) ==
  IF T[t].status = "absent" THEN T
  ELSE [T EXCEPT ![t].status = "in_progress", ![t].lastUpdatedAt = n]

\* completeTask / failTask of a running task: finishedAt set
finishTask(T, t, st, n) ==
  [T EXCEPT ![t].status = st, ![t].finishedAt = n, ![t].lastUpdatedAt = n]

\* cancelTask that refuses only a finished task
cancelTaskUnlessFinished(T, t, reason, n) ==
  IF T[t].status \in {"absent", "completed", "failed", "cancelled"}
  THEN [ret |-> {}, tasks |-> T]
  ELSE [ret |-> {t},
        tasks |-> [T EXCEPT ![t].status = "cancelled", ![t].finishedAt = n,
                            ![t].lastUpdatedAt = n, ![t].failureReason = reason]]

\* cancelTask without the lookup of the task and the test of its status
cancelTaskNoLookup(T, t, reason, n) ==
  [ret |-> {t},
   tasks |-> [T EXCEPT ![t].status = "cancelled", ![t].finishedAt = n, ![t].lastUpdatedAt = n,
                       ![t].failureReason = reason]]

\* cancelTask(taskId, reason): pending|in_progress -> cancelled with finishedAt; null otherwise
cancelTask(T, t, reason, n) ==
  IF T[t].status \in {"pending", "in_progress"}
  THEN [ret |-> {t},
        tasks |-> [T EXCEPT ![t].status = "cancelled", ![t].finishedAt = n,
                            ![t].lastUpdatedAt = n, ![t].failureReason = reason]]
  ELSE [ret |-> {}, tasks |-> T]

getOfferedTasksForAgent(T, a) == {t \in TaskIds : T[t].status = "offered" /\ T[t].offeredTo = a}
getPendingTaskForAgent(T, a) == {t \in TaskIds : T[t].status = "pending" /\ T[t].agentId = a}
getUnassignedTasksCount(T) == Cardinality({t \in TaskIds : T[t].status = "unassigned"})
\* hasCapacity(agentId): fewer tasks in progress than the agent's maxTasks
hasCapacity(T, a) ==
  Cardinality({t \in TaskIds : T[t].status = "in_progress" /\ T[t].agentId = a}) < AgentMaxTasks


\* getRecentlyFinishedWorkerTasks without the test notifiedAt IS NULL
getRecentlyFinishedWorkerTasksAgain(T) ==
  {t \in TaskIds : /\ T[t].status \in {"completed", "failed"}
                   /\ T[t].finishedAt # NoTime
                   /\ ~IsLead(T[t].agentId)}

\* getRecentlyFinishedWorkerTasks(): finished, not yet notified, owner not a lead
getRecentlyFinishedWorkerTasks(T) ==
  {t \in TaskIds : /\ T[t].status \in {"completed", "failed"}
                   /\ T[t].finishedAt # NoTime
                   /\ T[t].notifiedAt = NoTime
                   /\ ~IsLead(T[t].agentId)}

\* markTasksNotified that writes nothing
markTasksNotifiedNothing(T, ids, n) == T

\* markTasksNotified(taskIds): UPDATE ... SET notifiedAt = ? WHERE id IN (...) AND notifiedAt IS NULL
markTasksNotified(T, ids, n) ==
  [t \in TaskIds |-> IF t \in ids /\ T[t].status # "absent" /\ T[t].notifiedAt = NoTime
                     THEN [T[t] EXCEPT !.notifiedAt = n] ELSE T[t]]

\* the tasks_finished claim of the poll handler: select, markTasksNotified, return the selection
claimTasksFinished(T, n) ==
  LET finishedTasks == getRecentlyFinishedWorkerTasks(T)
  IN [ret |-> finishedTasks, tasks |-> markTasksNotified(T, finishedTasks, n)]

\* releaseStaleReviewingTasks with <= in place of < in the cutoff test
StaleReviewingLoose(T, timeout, n) ==
  {t \in TaskIds : T[t].status = "reviewing" /\ T[t].lastUpdatedAt <= n - timeout}

\* the rows releaseStaleReviewingTasks matches: status = 'reviewing' AND lastUpdatedAt < cutoff
StaleReviewing(T, timeout, n) ==
  {t \in TaskIds : T[t].status = "reviewing" /\ T[t].lastUpdatedAt < n - timeout}

\* releaseStaleReviewingTasks(timeoutMinutes): reviewing -> offered for the stale rows
releaseStaleReviewingTasks(T, timeout, n) ==
  [t \in TaskIds |-> IF t \in StaleReviewing(T, timeout, n)
                     THEN [T[t] EXCEPT !.status = "offered", !.lastUpdatedAt = n] ELSE T[t]]

\* ---------------------------------------------------------------- inbox
\* the k smallest elements of a set of ids (ORDER BY createdAt ASC LIMIT k)
FirstK(S, k) == {x \in S : Cardinality({y \in S : y < x}) < k}

createInboxMessage(I, m, a, n) ==
  [I EXCEPT ![m] = [status |-> "unread", agentId |-> a, lastUpdatedAt |-> n]]

getUnreadInboxMessages(I, a) == {m \in MsgIds : I[m].status = "unread" /\ I[m].agentId = a}

\* claimInboxMessages that returns the selected rows without the UPDATE
claimInboxMessagesNoUpdate(I, a, limit, n) ==
  [ret |-> FirstK(getUnreadInboxMessages(I, a), limit), inbox |-> I]

\* claimInboxMessages(agentId, limit): the rows that went unread -> processing
claimInboxMessages(I, a, limit, n) ==
  LET unreadIds == FirstK(getUnreadInboxMessages(I, a), limit)
      hit == {m \in unreadIds : I[m].status = "unread"}
  IN [ret |-> hit,
      inbox |-> [m \in MsgIds |-> IF m \in hit
                                  THEN [I[m] EXCEPT !.status = "processing", !.lastUpdatedAt = n]
                                  ELSE I[m]]]

\* the arrays claimInboxMessages can return: the rows of UPDATE ... RETURNING *, which
\* SQLite emits in an order of its choosing; the function does not sort them
claimInboxMessagesRows(I, a, limit, n) ==
  LET hit == claimInboxMessages(I, a, limit, n).ret
  IN {rows \in [1..Cardinality(hit) -> hit] :
        \A i, j \in 1..Cardinality(hit) : i # j => rows[i] # rows[j]}

\* markInboxMessageResponded / markInboxMessageDelegated: unread|processing -> st
\* markInboxMessage as it was before the claim engine: only unread rows qualify
markInboxMessageOnlyUnread(I, m, st, n) ==
  IF I[m].status = "unread"
  THEN [ret |-> {m}, inbox |-> [I EXCEPT ![m].status = st, ![m].lastUpdatedAt = n]]
  ELSE [ret |-> {}, inbox |-> I]

\* markInboxMessage with the first inbox model's update: WHERE id = ?, any status
markInboxMessageAnyStatus(I, m, st, n) ==
  IF I[m].status # "absent"
  THEN [ret |-> {m}, inbox |-> [I EXCEPT ![m].status = st, ![m].lastUpdatedAt = n]]
  ELSE [ret |-> {}, inbox |-> I]

markInboxMessage(I, m, st, n) ==
  IF I[m].status \in {"unread", "processing"}
  THEN [ret |-> {m}, inbox |-> [I EXCEPT ![m].status = st, ![m].lastUpdatedAt = n]]
  ELSE [ret |-> {}, inbox |-> I]

\* the cutoff of releaseStaleProcessingInbox set one unit too far back
StaleProcessingLate(I, timeout, n) ==
  {m \in MsgIds : I[m].status = "processing" /\ I[m].lastUpdatedAt < n - timeout - 1}

\* the rows releaseStaleProcessingInbox matches
StaleProcessing(I, timeout, n) ==
  {m \in MsgIds : I[m].status = "processing" /\ I[m].lastUpdatedAt < n - timeout}

\* releaseStaleProcessingInbox(timeoutMinutes): processing -> unread for the stale rows
releaseStaleProcessingInbox(I, timeout, n) ==
  [m \in MsgIds |-> IF m \in StaleProcessing(I, timeout, n)
                    THEN [I[m] EXCEPT !.status = "unread", !.lastUpdatedAt = n] ELSE I[m]]

\* the slack-reply tool called with an inboxMessageId by agent a: the message has a
\* Slack thread or not, Slack is configured or not, chat.postMessage succeeds or throws
slackReply(I, m, a, hasContext, configured, sent, n) ==
  IF I[m].status = "absent" THEN [success |-> FALSE, inbox |-> I]
  ELSE IF I[m].agentId # a THEN [success |-> FALSE, inbox |-> I]
  ELSE LET marked == markInboxMessage(I, m, "responded", n).inbox
       IN IF ~hasContext THEN [success |-> FALSE, inbox |-> marked]
          ELSE IF ~configured THEN [success |-> FALSE, inbox |-> marked]
          ELSE IF ~sent THEN [success |-> FALSE, inbox |-> marked]
          ELSE [success |-> TRUE, inbox |-> marked]


\* ---------------------------------------------------------------- mentions
\* getLastReadAt(agentId, channelId): null when there is no row
getLastReadAt(R, a, c) == IF R[a][c].exists THEN R[a][c].lastReadAt ELSE NoTime

\* the unread test with createdAt >= lastReadAt in place of createdAt > lastReadAt
HasUnreadMentionInclusive(R, M, a, c) ==
  /\ M[a][c] # NoTime
  /\ (getLastReadAt(R, a, c) = NoTime \/ M[a][c] >= getLastReadAt(R, a, c))

\* COUNT(*) > 0 of the channel's messages that mention the agent after lastReadAt
HasUnreadMention(R, M, a, c) ==
  /\ M[a][c] # NoTime
  /\ (getLastReadAt(R, a, c) = NoTime \/ M[a][c] > getLastReadAt(R, a, c))

\* the upsert of claimMentions without its WHERE processing_since IS NULL
MentionUpsertAlways(R, a, c) == TRUE

\* the upsert of claimMentions changes a row: none yet, or processing_since IS NULL
MentionUpsertHits(R, a, c) == ~R[a][c].exists \/ R[a][c].processingSince = NoTime

\* claimMentions(agentId): the channels whose processing_since this call set
claimMentions(R, M, a, n) ==
  LET hit == {c \in Channels : HasUnreadMention(R, M, a, c) /\ MentionUpsertHits(R, a, c)}
  IN [ret |-> hit,
      readState |->
        [R EXCEPT ![a] = [c \in Channels |->
           IF c \notin hit THEN R[a][c]
           ELSE IF R[a][c].exists THEN [R[a][c] EXCEPT !.processingSince = n]
           ELSE [exists |-> TRUE, lastReadAt |-> Epoch, processingSince |-> n]]]]

\* releaseMentionProcessing that leaves processing_since as it is
releaseMentionProcessingNothing(R, a, cs) == R

\* releaseMentionProcessing(agentId, channelIds): processing_since = NULL
releaseMentionProcessing(R, a, cs) ==
  [R EXCEPT ![a] = [c \in Channels |->
     IF c \in cs /\ R[a][c].exists THEN [R[a][c] EXCEPT !.processingSince = NoTime]
     ELSE R[a][c]]]

\* updateReadState(agentId, channelId): lastReadAt = now
updateReadState(R, a, c, n) ==
  [R EXCEPT ![a][c] = [exists |-> TRUE, lastReadAt |-> n,
                       processingSince |-> R[a][c].processingSince]]

\* the rows releaseStaleMentionProcessing matches
StaleMentions(R, timeout, n) ==
  {ac \in Agents \X Channels :
     /\ R[ac[1]][ac[2]].processingSince # NoTime
     /\ R[ac[1]][ac[2]].processingSince < n - timeout}

\* releaseStaleMentionProcessing that counts the stale rows and leaves them claimed
releaseStaleMentionProcessingNothing(R, timeout, n) == R

\* releaseStaleMentionProcessing(timeoutMinutes): processing_since = NULL for the stale rows
releaseStaleMentionProcessing(R, timeout, n) ==
  [a \in Agents |-> [c \in Channels |->
     IF <<a, c>> \in StaleMentions(R, timeout, n)
     THEN [R[a][c] EXCEPT !.processingSince = NoTime] ELSE R[a][c]]]

\* ---------------------------------------------------------------- GET /api/poll
\* offeredTasks[0] / the pending row: some row of the query, 0 when it has none
FirstOf(S) == IF S = {} THEN {0} ELSE S

Resolved(tr, T, I, R) == [trigger |-> tr, tasks |-> T, inbox |-> I, readState |-> R]

\* inbox messages claimed per poll: claimInboxMessages(myAgentId, 5)
PollInboxLimit == 5

\* the lead-only checks, giving up with null when claimMentions claims nothing although
\* a channel has unread mentions
ResolveLeadNoFallThrough(T, I, R, M, a, n) ==
  LET ci == claimInboxMessages(I, a, PollInboxLimit, n)
      cm == claimMentions(R, M, a, n)
      cf == claimTasksFinished(T, n)
  IN IF ci.ret # {}
     THEN Resolved(Trigger("slack_inbox_message", {}, ci.ret, {}, Cardinality(ci.ret)),
                   T, ci.inbox, R)
     ELSE IF cm.ret # {}
     THEN Resolved(Trigger("unread_mentions", {}, {}, cm.ret, 0), T, I, cm.readState)
     ELSE IF \E c \in Channels : HasUnreadMention(R, M, a, c)
     THEN Resolved(NullTrigger, T, I, R)
     ELSE IF cf.ret # {}
     THEN Resolved(Trigger("tasks_finished", cf.ret, {}, {}, Cardinality(cf.ret)),
                   cf.tasks, I, R)
     ELSE Resolved(NullTrigger, T, I, R)

\* the lead-only checks without the inbox check
ResolveLeadMentionsOnly(T, I, R, M, a, n) ==
  LET cm == claimMentions(R, M, a, n)
  IN IF cm.ret # {}
     THEN Resolved(Trigger("unread_mentions", {}, {}, cm.ret, 0), T, I, cm.readState)
     ELSE Resolved(NullTrigger, T, I, R)

\* the lead-only checks: slack_inbox_message, unread_mentions, tasks_finished
ResolveLead(T, I, R, M, a, n) ==
  LET ci == claimInboxMessages(I, a, PollInboxLimit, n)
      cm == claimMentions(R, M, a, n)
      cf == claimTasksFinished(T, n)
  IN IF ci.ret # {}
     THEN Resolved(Trigger("slack_inbox_message", {}, ci.ret, {}, Cardinality(ci.ret)),
                   T, ci.inbox, R)
     ELSE IF cm.ret # {}
     THEN Resolved(Trigger("unread_mentions", {}, {}, cm.ret, 0), T, I, cm.readState)
     ELSE IF cf.ret # {}
     THEN Resolved(Trigger("tasks_finished", cf.ret, {}, {}, Cardinality(cf.ret)),
                   cf.tasks, I, R)
     ELSE Resolved(NullTrigger, T, I, R)

\* the worker-only check, with the first pool task offered to the polling worker
ResolveWorkerTakes(T, I, R, a) ==
  IF getUnassignedTasksCount(T) > 0
  THEN LET t == CHOOSE u \in TaskIds : T[u].status = "unassigned"
       IN Resolved(Trigger("pool_tasks_available", {}, {}, {}, getUnassignedTasksCount(T)),
                   [T EXCEPT ![t].status = "offered", ![t].offeredTo = a], I, R)
  ELSE Resolved(NullTrigger, T, I, R)

\* the worker-only check: pool_tasks_available, nothing written
ResolveWorker(T, I, R, a) ==
  IF getUnassignedTasksCount(T) > 0
  THEN Resolved(Trigger("pool_tasks_available", {}, {}, {}, getUnassignedTasksCount(T)), T, I, R)
  ELSE Resolved(NullTrigger, T, I, R)

\* the resolver with task_assigned tested before task_offered
ResolveAssignedFirst(T, I, R, M, a, ot, pt, n) ==
  LET co == IF ot # 0 THEN claimOfferedTask(T, ot, a, n) ELSE [ret |-> {}, tasks |-> T]
  IN IF hasCapacity(T, a) /\ pt # 0
     THEN Resolved(Trigger("task_assigned", {pt}, {}, {}, 1), startTask(T, pt, n), I, R)
     ELSE IF co.ret # {}
     THEN Resolved(Trigger("task_offered", co.ret, {}, {}, 1), co.tasks, I, R)
     ELSE IF IsLead(a) THEN ResolveLead(T, I, R, M, a, n)
     ELSE ResolveWorker(T, I, R, a)

\* the transaction of GET /api/poll for agent a; ot, pt: the rows the two task queries
\* put first
Resolve(T, I, R, M, a, ot, pt, n) ==
  LET co == IF ot # 0 THEN claimOfferedTask(T, ot, a, n) ELSE [ret |-> {}, tasks |-> T]
  IN IF co.ret # {}
     THEN Resolved(Trigger("task_offered", co.ret, {}, {}, 1), co.tasks, I, R)
     ELSE IF hasCapacity(T, a) /\ pt # 0
     THEN Resolved(Trigger("task_assigned", {pt}, {}, {}, 1), startTask(T, pt, n), I, R)
     ELSE IF IsLead(a) THEN ResolveLead(T, I, R, M, a, n)
     ELSE ResolveWorker(T, I, R, a)

\* ---------------------------------------------------------------- actions
NextTask == IF \E t \in TaskIds : tasks[t].status = "absent"
            THEN {CHOOSE t \in TaskIds : tasks[t].status = "absent"
                                         /\ \A u \in TaskIds : u < t => tasks[u].status # "absent"}
            ELSE {}
NextMsg == IF \E m \in MsgIds : inbox[m].status = "absent"
           THEN {CHOOSE m \in MsgIds : inbox[m].status = "absent"
                                       /\ \A u \in MsgIds : u < m => inbox[u].status # "absent"}
           ELSE {}

\* rows and mentions the producer layer has created so far
Created ==
  Cardinality({t \in TaskIds : tasks[t].status # "absent"})
  + Cardinality({m \in MsgIds : inbox[m].status # "absent"})
  + Cardinality({ac \in Agents \X Channels : mentions[ac[1]][ac[2]] # NoTime})

Tick ==
  /\ now < MaxTime
  /\ now' = now + 1
  /\ UNCHANGED <<tasks, inbox, readState, mentions, lastOp, agents, runner, processedEvents>>

\* the producer layer creates a task: in the pool, offered to an agent or assigned to one
CreateTask ==
  \E t \in NextTask, a \in Agents \cup {NoAgent}, o \in Agents \cup {NoAgent} :
    /\ Created < MaxRecords
    /\ a = NoAgent \/ o = NoAgent
    /\ tasks' = createTaskExtended(tasks, t, a, o, now)
    /\ lastOp' = NoOp
    /\ UNCHANGED <<inbox, readState, mentions, now, agents, runner, processedEvents>>

\* the producer layer files an inbox message for a lead
CreateInbox ==
  \E m \in NextMsg, a \in {x \in Agents : IsLead(x)} :
    /\ Created < MaxRecords
    /\ inbox' = createInboxMessage(inbox, m, a, now)
    /\ lastOp' = NoOp
    /\ UNCHANGED <<tasks, readState, mentions, now, agents, runner, processedEvents>>

\* postMessage(channel, ..., {mentions: [a]})
PostMention ==
  \E a \in {x \in Agents : IsLead(x)}, c \in Channels :
    /\ mentions[a][c] # NoTime \/ Created < MaxRecords
    /\ mentions' = [mentions EXCEPT ![a][c] = now]
    /\ lastOp' = NoOp
    /\ UNCHANGED <<tasks, inbox, readState, now, agents, runner, processedEvents>>

CallAcceptTask ==
  \E t \in TaskIds, a \in Agents :
    LET r == acceptTask(tasks, t, a, now)
    IN /\ tasks' = r.tasks
       /\ lastOp' = NoOp
       /\ UNCHANGED <<inbox, readState, mentions, now, agents, runner, processedEvents>>

CallRejectTask ==
  \E t \in TaskIds, a \in Agents :
    LET r == rejectTask(tasks, t, a, now)
    IN /\ tasks' = r.tasks
       /\ lastOp' = NoOp
       /\ UNCHANGED <<inbox, readState, mentions, now, agents, runner, processedEvents>>

\* the agent working on a task stores its result
FinishTask ==
  \E t \in TaskIds, st \in {"completed", "failed"} :
    /\ tasks[t].status = "in_progress"
    /\ tasks' = finishTask(tasks, t, st, now)
    /\ lastOp' = NoOp
    /\ UNCHANGED <<inbox, readState, mentions, now, agents, runner, processedEvents>>

CallMarkInboxMessage ==
  \E m \in MsgIds, st \in {"responded", "delegated"} :
    LET r == markInboxMessage(inbox, m, st, now)
    IN /\ inbox' = r.inbox
       /\ lastOp' = NoOp
       /\ UNCHANGED <<tasks, readState, mentions, now, agents, runner, processedEvents>>

\* the read-messages tool with markAsRead: updateReadState, then releaseMentionProcessing
ReadMessages ==
  \E a \in {x \in Agents : IsLead(x)}, c \in Channels :
    /\ readState' = releaseMentionProcessing(updateReadState(readState, a, c, now), a, {c})
    /\ lastOp' = NoOp
    /\ UNCHANGED <<tasks, inbox, mentions, now, agents, runner, processedEvents>>

\* GET /api/poll with X-Agent-ID: a
PollAgent(a) ==
  \* getAgentById(myAgentId): no row gives 404 "Agent not found"
  /\ agents[a].status # "absent"
  /\ \E ot \in FirstOf(getOfferedTasksForAgent(tasks, a)),
        pt \in FirstOf(getPendingTaskForAgent(tasks, a)) :
       LET r == Resolve(tasks, inbox, readState, mentions, a, ot, pt, now)
       IN /\ tasks' = r.tasks
          /\ inbox' = r.inbox
          /\ readState' = r.readState
          /\ lastOp' = Op("poll", a, 0, r.trigger)
          /\ UNCHANGED <<mentions, now, agents, runner, processedEvents>>

Poll == \E a \in Agents : PollAgent(a)

ReleaseStaleReviewingTasks ==
  \E timeout \in 0..MaxTimeout :
    /\ tasks' = releaseStaleReviewingTasks(tasks, timeout, now)
    /\ lastOp' = Op("release", NoAgent, 0,
                    Trigger("released", StaleReviewing(tasks, timeout, now), {}, {},
                            Cardinality(StaleReviewing(tasks, timeout, now))))
    /\ UNCHANGED <<inbox, readState, mentions, now, agents, runner, processedEvents>>

ReleaseStaleProcessingInbox ==
  \E timeout \in 0..MaxTimeout :
    /\ inbox' = releaseStaleProcessingInbox(inbox, timeout, now)
    /\ lastOp' = Op("release", NoAgent, 0,
                    Trigger("released", {}, StaleProcessing(inbox, timeout, now), {},
                            Cardinality(StaleProcessing(inbox, timeout, now))))
    /\ UNCHANGED <<tasks, readState, mentions, now, agents, runner, processedEvents>>

ReleaseStaleMentionProcessing ==
  \E timeout \in 0..MaxTimeout :
    /\ readState' = releaseStaleMentionProcessing(readState, timeout, now)
    /\ lastOp' = Op("release", NoAgent, 0,
                    Trigger("released", {}, {},
                            {c \in Channels : \E a \in Agents :
                                                <<a, c>> \in StaleMentions(readState, timeout, now)},
                            Cardinality(StaleMentions(readState, timeout, now))))
    /\ UNCHANGED <<tasks, inbox, mentions, now, agents, runner, processedEvents>>

Min(x, y) == IF x < y THEN x ELSE y

\* ---------------------------------------------------------------- agents
AgentStatuses == {"idle", "busy", "offline"}
Names == {"n1", "n2"}
AbsentAgent == [status |-> "absent", name |-> "none"]

\* createAgent({id, name, status: "idle", ...})
createAgent(A, a, name) == [A EXCEPT ![a] = [status |-> "idle", name |-> name]]

\* updateAgentStatus(id, status)
updateAgentStatus(A, a, st) == [A EXCEPT ![a].status = st]

\* INSERT INTO agents with an id that has a row: id is the PRIMARY KEY, the insert throws
createAgentRefused(A, a) == A[a].status # "absent"

\* POST /api/agents without the lookup of the existing agent: always createAgent
registerAgentAlwaysCreates(A, a, name) ==
  IF createAgentRefused(A, a)
  THEN [agents |-> A, ret |-> AbsentAgent, created |-> FALSE, ok |-> FALSE]
  ELSE [agents |-> createAgent(A, a, name), ret |-> createAgent(A, a, name)[a],
        created |-> TRUE, ok |-> TRUE]

\* POST /api/agents that sets every existing agent to idle, not only an offline one
registerAgentRevivesAll(A, a, name) ==
  IF A[a].status # "absent"
  THEN LET A2 == updateAgentStatus(A, a, "idle")
       IN [agents |-> A2, ret |-> A2[a], created |-> FALSE, ok |-> TRUE]
  ELSE LET A2 == createAgent(A, a, name)
       IN [agents |-> A2, ret |-> A2[a], created |-> TRUE, ok |-> TRUE]

\* POST /api/agents: the register transaction; ret is the agent row of the response,
\* ok is FALSE when the transaction throws
registerAgent(A, a, name) ==
  IF A[a].status # "absent"
  THEN LET A2 == IF A[a].status = "offline" THEN updateAgentStatus(A, a, "idle") ELSE A
       IN [agents |-> A2, ret |-> A2[a], created |-> FALSE, ok |-> TRUE]
  ELSE LET A2 == createAgent(A, a, name)
       IN [agents |-> A2, ret |-> A2[a], created |-> TRUE, ok |-> ~createAgentRefused(A, a)]

\* POST /close, called by the Stop hook of the session: the agent is marked offline
close(A, a) == IF A[a].status = "absent" THEN A ELSE updateAgentStatus(A, a, "offline")

\* ---------------------------------------------------------------- runner
ExitCodes == {0, 1}
NoExit == -1
RunnerAgents == {"W1"}
RunnerName == "n1"
NoRunner == [pc |-> "off", agent |-> NoAgent, yolo |-> FALSE, polls |-> 0, windows |-> 0,
             iteration |-> 0, spawned |-> 0, children |-> 0, trigger |-> "null",
             exitCode |-> 0, errorLogged |-> FALSE, signalled |-> FALSE,
             cause |-> "none", processExit |-> NoExit]

\* ---------------------------------------------------------------- event deduplication
\* EVENT_TTL = 60_000 ms, in ticks of the clock
EVENT_TTL == 1
\* the event keys, for one repository and one pull request or issue number:
\* pr-assigned, pr-review-requested, pr:<action>, issue-assigned, issue:<action>;
\* the events of the model carry "opened" for the two actions "opened" and
\* "edited", which take one path and differ by the action in the key
EventKeys ==
  ({"handlePullRequest"} \X {"assigned", "review_requested", "opened"})
  \cup ({"handleIssue"} \X {"assigned", "opened"})
\* new Map(): no key
NoEvents == [k \in EventKeys |-> NoTime]

\* "Clean old entries": the entries older than EVENT_TTL are deleted
CleanOld(P, n) ==
  [k \in EventKeys |-> IF P[k] # NoTime /\ n - P[k] > EVENT_TTL THEN NoTime ELSE P[k]]

\* isDuplicate that stamps the key again at every repeat
isDuplicateRestamps(P, key, n) ==
  LET Q == CleanOld(P, n)
  IN [dup |-> Q[key] # NoTime, processedEvents |-> [Q EXCEPT ![key] = n]]

\* isDuplicate(eventKey)
isDuplicate(P, key, n) ==
  LET Q == CleanOld(P, n)
  IN IF Q[key] # NoTime THEN [dup |-> TRUE, processedEvents |-> Q]
     ELSE [dup |-> FALSE, processedEvents |-> [Q EXCEPT ![key] = n]]

\* ---------------------------------------------------------------- specification
Init ==
  /\ tasks = [t \in TaskIds |-> AbsentTask]
  /\ inbox = [m \in MsgIds |-> AbsentMsg]
  /\ readState = [a \in Agents |-> [c \in Channels |-> NoRow]]
  /\ mentions = [a \in Agents |-> [c \in Channels |-> NoTime]]
  /\ now = 1
  /\ lastOp = NoOp
  /\ agents = [a \in Agents |-> [status |-> "idle", name |-> "n1"]]
  /\ runner = NoRunner
  /\ processedEvents = NoEvents

Next ==
  \/ Tick
  \/ CreateTask
  \/ CreateInbox
  \/ PostMention
  \/ CallAcceptTask
  \/ CallRejectTask
  \/ FinishTask
  \/ CallMarkInboxMessage
  \/ ReadMessages
  \/ Poll
  \/ ReleaseStaleReviewingTasks
  \/ ReleaseStaleProcessingInbox
  \/ ReleaseStaleMentionProcessing

Spec == Init /\ [][Next]_vars

\* ---------------------------------------------------------------- runAgent
storeVars == <<tasks, inbox, readState, mentions>>

\* process.exit(code)
ProcessExit(cause, code) ==
  [runner EXCEPT !.pc = "terminated", !.cause = cause, !.processExit = code]

\* a new call of pollForTrigger: startTime = Date.now()
NewWindow(R) == [R EXCEPT !.pc = "polling", !.polls = 0, !.trigger = "null", !.exitCode = 0]

\* registerAgent succeeds: POST /api/agents answered 200 / 201
RegisterOk ==
  /\ runner.pc = "start"
  /\ agents' = registerAgent(agents, runner.agent, RunnerName).agents
  /\ runner' = NewWindow(runner)
  /\ UNCHANGED <<tasks, inbox, readState, mentions, now, lastOp, processedEvents>>

\* registerAgent throws (network error or non-OK response): process.exit(1)
RegisterFail ==
  /\ runner.pc = "start"
  /\ \E reached \in BOOLEAN :
       agents' = IF reached THEN registerAgent(agents, runner.agent, RunnerName).agents
                 ELSE agents
  /\ runner' = ProcessExit("register_failed", 1)
  /\ UNCHANGED <<tasks, inbox, readState, mentions, now, lastOp, processedEvents>>

\* one round of pollForTrigger whose fetch fails or is answered non-OK: warn, sleep
PollMiss ==
  /\ runner.pc = "polling"
  /\ runner.polls < MaxPolls
  /\ runner' = [runner EXCEPT !.polls = @ + 1]
  /\ UNCHANGED <<tasks, inbox, readState, mentions, now, lastOp, agents, processedEvents>>

\* one round of pollForTrigger answered by GET /api/poll; with a trigger, runAgent
\* builds the prompt and counts the iteration
PollOk ==
  /\ runner.pc = "polling"
  /\ runner.polls < MaxPolls
  /\ agents[runner.agent].status # "absent"
  /\ \E ot \in FirstOf(getOfferedTasksForAgent(tasks, runner.agent)),
        pt \in FirstOf(getPendingTaskForAgent(tasks, runner.agent)) :
       LET r == Resolve(tasks, inbox, readState, mentions, runner.agent, ot, pt, now)
       IN /\ tasks' = r.tasks
          /\ inbox' = r.inbox
          /\ readState' = r.readState
          /\ lastOp' = Op("poll", runner.agent, 0, r.trigger)
          /\ runner' = IF r.trigger.type = "null"
                        THEN [runner EXCEPT !.polls = @ + 1]
                        ELSE [runner EXCEPT !.pc = "dispatch", !.trigger = r.trigger.type,
                                            !.iteration = (@ + 1) % IterMod,
                                            !.windows = 0]
  /\ UNCHANGED <<mentions, now, agents, processedEvents>>

\* a runAgent that stops after MaxWindows empty poll windows in a row
WindowTimeoutGivesUp ==
  /\ runner.pc = "polling"
  /\ runner.polls = MaxPolls
  /\ runner' = IF runner.windows = MaxWindows THEN ProcessExit("gave_up", 1)
                ELSE [NewWindow(runner) EXCEPT !.windows = Min(@ + 1, MaxWindows)]
  /\ UNCHANGED <<tasks, inbox, readState, mentions, now, lastOp, agents, processedEvents>>

\* pollTimeout elapsed: pollForTrigger returns null and runAgent polls again
WindowTimeout ==
  /\ runner.pc = "polling"
  /\ runner.polls = MaxPolls
  /\ runner' = [NewWindow(runner) EXCEPT !.windows = Min(@ + 1, MaxWindows)]
  /\ UNCHANGED <<tasks, inbox, readState, mentions, now, lastOp, agents, processedEvents>>

\* a runAgent that starts the session and polls on without awaiting its exit
SpawnDetached ==
  /\ runner.pc = "dispatch"
  /\ runner' = [NewWindow(runner) EXCEPT !.children = @ + 1,
                                         !.spawned = (@ + 1) % IterMod,
                                         !.errorLogged = FALSE]
  /\ UNCHANGED <<tasks, inbox, readState, mentions, now, lastOp, agents, processedEvents>>

\* runClaudeIteration: Bun.spawn(CMD)
Spawn ==
  /\ runner.pc = "dispatch"
  /\ runner' = [runner EXCEPT !.pc = "running", !.children = @ + 1,
                              !.spawned = (@ + 1) % IterMod, !.errorLogged = FALSE]
  /\ UNCHANGED <<tasks, inbox, readState, mentions, now, lastOp, agents, processedEvents>>

\* the session ends: its Stop hook (when it runs) calls close(), then proc.exited resolves
ChildExit ==
  /\ runner.pc = "running"
  /\ \E code \in ExitCodes, stop \in BOOLEAN :
       /\ runner' = [runner EXCEPT !.pc = "exited", !.children = @ - 1, !.exitCode = code]
       /\ agents' = IF stop THEN close(agents, runner.agent) ELSE agents
  /\ UNCHANGED <<tasks, inbox, readState, mentions, now, lastOp, processedEvents>>

\* a runAgent that logs a non-zero exit and polls again whatever the mode
HandleExitAlwaysContinues ==
  /\ runner.pc = "exited"
  /\ runner' = IF runner.exitCode # 0
                THEN [NewWindow(runner) EXCEPT !.errorLogged = TRUE]
                ELSE NewWindow(runner)
  /\ UNCHANGED <<tasks, inbox, readState, mentions, now, lastOp, agents, processedEvents>>

\* runAgent after runClaudeIteration returned exitCode
HandleExit ==
  /\ runner.pc = "exited"
  /\ runner' = IF runner.exitCode # 0
                THEN IF ~runner.yolo
                     THEN [ProcessExit("child_failed", runner.exitCode)
                             EXCEPT !.errorLogged = TRUE]
                     ELSE [NewWindow(runner) EXCEPT !.errorLogged = TRUE]
                ELSE NewWindow(runner)
  /\ UNCHANGED <<tasks, inbox, readState, mentions, now, lastOp, agents, processedEvents>>

\* SIGINT / SIGTERM: shutdown() starts and awaits savePm2State
Signal ==
  /\ runner.pc \notin {"off", "terminated"}
  /\ ~runner.signalled
  /\ runner' = [runner EXCEPT !.signalled = TRUE]
  /\ UNCHANGED <<tasks, inbox, readState, mentions, now, lastOp, agents, processedEvents>>

\* a shutdown that gives the agent's reviewing tasks back before it exits
ShutdownExitReleasesClaims ==
  /\ runner.pc \notin {"off", "terminated"}
  /\ runner.signalled
  /\ runner' = ProcessExit("signal", 0)
  /\ tasks' = [t \in TaskIds |->
                 IF tasks[t].status = "reviewing" /\ tasks[t].offeredTo = runner.agent
                 THEN [tasks[t] EXCEPT !.status = "offered", !.lastUpdatedAt = now]
                 ELSE tasks[t]]
  /\ UNCHANGED <<inbox, readState, mentions, now, lastOp, agents, processedEvents>>

\* shutdown() after savePm2State: process.exit(0)
ShutdownExit ==
  /\ runner.pc \notin {"off", "terminated"}
  /\ runner.signalled
  /\ runner' = ProcessExit("signal", 0)
  /\ UNCHANGED <<tasks, inbox, readState, mentions, now, lastOp, agents, processedEvents>>

\* a task is sent to the runner's agent: offered to it, assigned to it, or put in the pool
SendTask ==
  \E t \in NextTask, k \in {"offer", "assign", "pool"} :
    /\ Created < MaxRunnerRecords
    /\ tasks' = createTaskExtended(tasks, t,
                   IF k = "assign" THEN runner.agent ELSE NoAgent,
                   IF k = "offer" THEN runner.agent ELSE NoAgent, now)
    /\ lastOp' = NoOp
    /\ UNCHANGED <<inbox, readState, mentions, now, agents, runner, processedEvents>>

RunnerInit ==
  /\ tasks = [t \in TaskIds |-> AbsentTask]
  /\ inbox = [m \in MsgIds |-> AbsentMsg]
  /\ readState = [a \in Agents |-> [c \in Channels |-> NoRow]]
  /\ mentions = [a \in Agents |-> [c \in Channels |-> NoTime]]
  /\ now = 1
  /\ lastOp = NoOp
  /\ \E a \in RunnerAgents, y \in BOOLEAN, row \in {AbsentAgent} \cup
          [status : AgentStatuses, name : Names \ {RunnerName}] :
       /\ agents = [x \in Agents |-> IF x = a THEN row
                                      ELSE [status |-> "idle", name |-> "n1"]]
       /\ runner = [NoRunner EXCEPT !.pc = "start", !.agent = a, !.yolo = y]
  /\ processedEvents = NoEvents

RunnerNext ==
  \/ RegisterOk
  \/ RegisterFail
  \/ PollMiss
  \/ PollOk
  \/ WindowTimeout
  \/ Spawn
  \/ ChildExit
  \/ HandleExit
  \/ Signal
  \/ ShutdownExit
  \/ Tick
  \/ SendTask
  \/ CallAcceptTask
  \/ CallRejectTask
  \/ FinishTask
  \/ ReleaseStaleReviewingTasks

RunnerSpec == RunnerInit /\ [][RunnerNext]_vars

\* ---------------------------------------------------------------- GitHub webhook handlers
PullRequestActions ==
  {"assigned", "unassigned", "review_requested", "review_request_removed",
   "opened", "closed"}
IssueActions == {"assigned", "unassigned", "opened", "closed"}
CreatingActions == {"assigned", "review_requested", "opened"}
CancellingActions == {"unassigned", "review_request_removed"}
NoTaskId == 0

\* findLeadAgent(): an online lead, else any lead, else null
findLeadAgent(A) ==
  LET online == {a \in Agents : IsLead(a) /\ A[a].status \notin {"absent", "offline"}}
      any == {a \in Agents : IsLead(a) /\ A[a].status # "absent"}
  IN IF online # {} THEN CHOOSE a \in online : TRUE
     ELSE IF any # {} THEN CHOOSE a \in any : TRUE
     ELSE NoAgent

\* findTaskByGitHub(repo, number): a task or null, as the handlers test it
findTaskByGitHub(T) == {t \in TaskIds : T[t].status # "absent"} \cup {NoTaskId}

\* failTask(task.id, reason) as the handlers use it: the failed task, or null with
\* the Store unchanged
failTask(T, t, reason, n) ==
  {[ret |-> {t},
    tasks |-> [finishTask(T, t, "failed", n) EXCEPT ![t].failureReason = reason]],
   [ret |-> {}, tasks |-> T]}

\* the reason the handlers give to failTask
CancelReason(action) ==
  IF action = "unassigned" THEN "Unassigned from GitHub"
  ELSE "Review request removed from GitHub"

\* the handlers' task creation with the task put to work in the same step
githubCreateStarted(T, t, lead, n) ==
  startTask(createTaskExtended(T, t, lead, NoAgent, n), t, n)

\* createTaskExtended(description, {agentId: lead?.id ?? "", source: "github", ...})
githubCreate(T, t, lead, n) == createTaskExtended(T, t, lead, NoAgent, n)

\* what the last call records of its event: 1 when the event concerns the bot
\* the events that concern the bot and reach isDuplicate are counted in the result
Concerns(concerned) == IF concerned THEN 1 ELSE 0

\* one webhook event; the bot is concerned by it or not (isBotAssignee, detectMention)
handleGitHubEvent(ev, action, concerned) ==
  IF action \in CreatingActions /\ concerned
  THEN LET d == isDuplicate(processedEvents, <<ev, action>>, now)
       IN /\ processedEvents' = d.processedEvents
          /\ IF d.dup
             THEN /\ tasks' = tasks
                  /\ lastOp' = Op(ev, NoAgent, NoTaskId, Trigger(action, {}, {}, {}, Concerns(concerned)))
             ELSE \E t \in NextTask :
                    LET lead == findLeadAgent(agents)
                    IN /\ tasks' = githubCreate(tasks, t, lead, now)
                       /\ lastOp' = Op(ev, lead, t, Trigger(action, {t}, {}, {}, Concerns(concerned)))
  ELSE IF action \in CancellingActions /\ concerned
  THEN /\ processedEvents' = processedEvents
       /\ \E t \in findTaskByGitHub(tasks) :
            IF t = NoTaskId
            THEN /\ tasks' = tasks
                 /\ lastOp' = Op(ev, NoAgent, NoTaskId, Trigger(action, {}, {}, {}, 0))
            ELSE \E r \in failTask(tasks, t, CancelReason(action), now) :
                   /\ tasks' = r.tasks
                   /\ lastOp' = Op(ev, NoAgent, t, Trigger(action, r.ret, {}, {}, 0))
  ELSE /\ processedEvents' = processedEvents
       /\ tasks' = tasks
       /\ lastOp' = Op(ev, NoAgent, NoTaskId, Trigger(action, {}, {}, {}, 0))

handlePullRequest ==
  \E action \in PullRequestActions, concerned \in BOOLEAN :
    /\ handleGitHubEvent("handlePullRequest", action, concerned)
    /\ UNCHANGED <<inbox, readState, mentions, now, agents, runner>>

handleIssue ==
  \E action \in IssueActions, concerned \in BOOLEAN :
    /\ handleGitHubEvent("handleIssue", action, concerned)
    /\ UNCHANGED <<inbox, readState, mentions, now, agents, runner>>

\* the Store with or without a registered lead
ProducerInit ==
  /\ tasks = [t \in TaskIds |-> AbsentTask]
  /\ inbox = [m \in MsgIds |-> AbsentMsg]
  /\ readState = [a \in Agents |-> [c \in Channels |-> NoRow]]
  /\ mentions = [a \in Agents |-> [c \in Channels |-> NoTime]]
  /\ now = 1
  /\ lastOp = NoOp
  /\ \E L \in {AbsentAgent} \cup [status : AgentStatuses, name : {"n1"}] :
       agents = [a \in Agents |-> IF IsLead(a) THEN L ELSE [status |-> "idle", name |-> "n1"]]
  /\ runner = NoRunner
  /\ processedEvents = NoEvents

ProducerNext ==
  \/ handlePullRequest
  \/ handleIssue
  \/ Tick
  \/ Poll
  \/ FinishTask

ProducerSpec == ProducerInit /\ [][ProducerNext]_vars

\* ---------------------------------------------------------------- task lifecycle
\* cancelTask(taskId, reason?) called on any id
CallCancelTask ==
  \E t \in TaskIds, reason \in Reasons :
    LET r == cancelTask(tasks, t, reason, now)
    IN /\ tasks' = r.tasks
       /\ lastOp' = NoOp
       /\ UNCHANGED <<inbox, readState, mentions, now, agents, runner, processedEvents>>

\* a task is created: in the pool, offered to an agent or assigned to one
NewTask ==
  \E t \in NextTask, a \in Agents \cup {NoAgent}, o \in Agents \cup {NoAgent} :
    /\ Created < MaxLifecycleRecords
    /\ a = NoAgent \/ o = NoAgent
    /\ tasks' = createTaskExtended(tasks, t, a, o, now)
    /\ lastOp' = NoOp
    /\ UNCHANGED <<inbox, readState, mentions, now, agents, runner, processedEvents>>

\* startTask(taskId) called on its own, outside the poll
CallStartTask ==
  \E t \in TaskIds :
    /\ tasks' = startTask(tasks, t, now)
    /\ lastOp' = NoOp
    /\ UNCHANGED <<inbox, readState, mentions, now, agents, runner, processedEvents>>

\* the operations on tasks: creation, the poll, accept, reject, start, completion,
\* cancel and the Reaper
LifecycleNext ==
  \/ Tick
  \/ NewTask
  \/ Poll
  \/ CallAcceptTask
  \/ CallRejectTask
  \/ CallStartTask
  \/ FinishTask
  \/ CallCancelTask
  \/ ReleaseStaleReviewingTasks

LifecycleSpec == Init /\ [][LifecycleNext]_vars

\* ---------------------------------------------------------------- delivery
\* the agents that poll: a lead and a worker
LiveAgents == {"L", "W1"}

\* a task is offered to a polling agent
OfferTask ==
  \E t \in NextTask, a \in LiveAgents :
    /\ Created < MaxRecords
    /\ tasks' = createTaskExtended(tasks, t, NoAgent, a, now)
    /\ lastOp' = NoOp
    /\ UNCHANGED <<inbox, readState, mentions, now, agents, runner, processedEvents>>

\* postMessage(channel, ..., {mentions: [a]}) for any polling agent
MentionAgent ==
  \E a \in LiveAgents, c \in Channels :
    /\ mentions[a][c] # NoTime \/ Created < MaxRecords
    /\ mentions' = [mentions EXCEPT ![a][c] = now]
    /\ lastOp' = NoOp
    /\ UNCHANGED <<tasks, inbox, readState, now, agents, runner, processedEvents>>

\* the runner of a polling agent polls
LivePoll == \E a \in LiveAgents : PollAgent(a)

LiveNext ==
  \/ Tick
  \/ OfferTask
  \/ CreateInbox
  \/ MentionAgent
  \/ LivePoll
  \/ CallAcceptTask
  \/ CallRejectTask
  \/ CallMarkInboxMessage
  \/ ReadMessages
  \/ ReleaseStaleReviewingTasks
  \/ ReleaseStaleProcessingInbox
  \/ ReleaseStaleMentionProcessing

\* runAgent's while (true): every polling agent polls again and again
LiveSpec ==
  /\ Init
  /\ [][LiveNext]_vars
  /\ \A a \in LiveAgents : WF_vars(PollAgent(a))


\* ---------------------------------------------------------------- claims
\* the store as one value, for composing calls
Cur == [tasks |-> tasks, inbox |-> inbox, readState |-> readState]
Leads == {a \in Agents : IsLead(a)}

\* every response GET /api/poll can give agent a in store St
PollOutcomes(St, a) ==
  {Resolve(St.tasks, St.inbox, St.readState, mentions, a, ot, pt, now) :
     ot \in FirstOf(getOfferedTasksForAgent(St.tasks, a)),
     pt \in FirstOf(getPendingTaskForAgent(St.tasks, a))}

StoreOf(r) == [tasks |-> r.tasks, inbox |-> r.inbox, readState |-> r.readState]

\* a claim call: the function and its arguments
ClaimCalls ==
  [fn : {"claimOfferedTask"}, task : TaskIds, agent : Agents, limit : {0}]
  \cup [fn : {"claimInboxMessages"}, task : {0}, agent : Agents, limit : 1..MaxLimit]
  \cup [fn : {"claimMentions"}, task : {0}, agent : Agents, limit : {0}]
  \cup [fn : {"claimTasksFinished"}, task : {0}, agent : Leads, limit : {0}]

Rec(k, i, c) == [kind |-> k, id |-> i, chan |-> c]

\* what call c returns in store St, as records, and the store it leaves
ApplyCall(St, c) ==
  CASE c.fn = "claimOfferedTask" ->
         LET r == claimOfferedTask(St.tasks, c.task, c.agent, now)
         IN [ret |-> {Rec("task", t, "-") : t \in r.ret}, st |-> [St EXCEPT !.tasks = r.tasks]]
    [] c.fn = "claimInboxMessages" ->
         LET r == claimInboxMessages(St.inbox, c.agent, c.limit, now)
         IN [ret |-> {Rec("msg", m, "-") : m \in r.ret}, st |-> [St EXCEPT !.inbox = r.inbox]]
    [] c.fn = "claimMentions" ->
         LET r == claimMentions(St.readState, mentions, c.agent, now)
         IN [ret |-> {Rec("chan", 0, ch) : ch \in r.ret},
             st |-> [St EXCEPT !.readState = r.readState]]
    [] c.fn = "claimTasksFinished" ->
         LET r == claimTasksFinished(St.tasks, now)
         IN [ret |-> {Rec("finished", t, "-") : t \in r.ret}, st |-> [St EXCEPT !.tasks = r.tasks]]

\* the results of k calls c made one after the other
RECURSIVE CallRets(_, _, _)
CallRets(St, c, k) ==
  IF k = 0 THEN <<>>
  ELSE LET r == ApplyCall(St, c) IN <<r.ret>> \o CallRets(r.st, c, k - 1)

\* C1: of N calls of a claim function that race for a record the call can claim, run in
\* any order, exactly one returns the record and the other N-1 do not
C1_AtMostOnceClaim ==
  \A c \in ClaimCalls : \A r \in ApplyCall(Cur, c).ret : \A N \in 1..MaxCalls :
    Cardinality({i \in 1..N : r \in CallRets(Cur, c, N)[i]}) = 1

\* a poll of an agent has just missed a task that an earlier poll of it claimed
C1_Witness ==
  /\ lastOp.op = "poll"
  /\ lastOp.ret.type = "null"
  /\ \E t \in TaskIds : tasks[t].status = "reviewing" /\ tasks[t].offeredTo = lastOp.agent

\* C2: a trigger of a claimed kind is returned with its records already claimed
C2_ReturnedImpliesClaimed ==
  \A a \in Agents : \A r \in PollOutcomes(Cur, a) :
    /\ r.trigger.type = "task_offered" =>
         r.trigger.tasks # {} /\ \A t \in r.trigger.tasks : r.tasks[t].status = "reviewing"
    /\ r.trigger.type = "task_assigned" =>
         r.trigger.tasks # {} /\ \A t \in r.trigger.tasks : r.tasks[t].status = "in_progress"
    /\ r.trigger.type = "slack_inbox_message" =>
         r.trigger.msgs # {} /\ \A m \in r.trigger.msgs : r.inbox[m].status = "processing"
    /\ r.trigger.type = "unread_mentions" =>
         /\ r.trigger.chans # {}
         /\ \A c \in r.trigger.chans : r.readState[a][c].processingSince # NoTime
    /\ r.trigger.type = "tasks_finished" =>
         r.trigger.tasks # {} /\ \A t \in r.trigger.tasks : r.tasks[t].notifiedAt # NoTime

\* a poll has just returned tasks_finished and the store holds its tasks as notified
C2_Witness ==
  /\ lastOp.op = "poll"
  /\ lastOp.ret.type = "tasks_finished"
  /\ \A t \in lastOp.ret.tasks : tasks[t].notifiedAt # NoTime

\* C10: claimOfferedTask(taskId, agentId) moves the task offered -> reviewing and returns
\* it iff the task is offered and offered to agentId; otherwise it returns nothing and
\* changes nothing
C10_ClaimOfferedTaskIff ==
  \A t \in TaskIds : \A a \in Agents :
    LET r == claimOfferedTask(tasks, t, a, now)
        ok == tasks[t].status = "offered" /\ tasks[t].offeredTo = a
    IN /\ (r.ret = {t}) <=> ok
       /\ ok => /\ r.tasks[t].status = "reviewing"
                /\ r.tasks[t].offeredTo = a
                /\ \A u \in TaskIds \ {t} : r.tasks[u] = tasks[u]
       /\ ~ok => r.ret = {} /\ r.tasks = tasks

\* a task is under review by the agent it was offered to while the other task is not
\* offered at all: both cases of the claim
C10_Witness ==
  /\ lastOp.op = "poll" /\ lastOp.ret.type = "task_offered"
  /\ \E t \in lastOp.ret.tasks : tasks[t].status = "reviewing" /\ tasks[t].offeredTo = lastOp.agent
  /\ \E u \in TaskIds : tasks[u].status \in {"pending", "unassigned"}

\* ---------------------------------------------------------------- eligibility
Kinds == <<"task_offered", "task_assigned", "slack_inbox_message", "unread_mentions",
           "tasks_finished", "pool_tasks_available">>
ClaimedKinds == {"task_offered", "task_assigned", "slack_inbox_message", "unread_mentions",
                 "tasks_finished"}
Rank(ty) == CHOOSE i \in 1..Len(Kinds) : Kinds[i] = ty

\* the channels of agent a with unread mentions that nobody is processing
UnclaimedMentionChannels(St, a) ==
  {c \in Channels : /\ HasUnreadMention(St.readState, mentions, a, c)
                    /\ St.readState[a][c].processingSince = NoTime}

\* kind k has something to hand to agent a in store St
Eligible(St, a, k) ==
  CASE k = "task_offered" ->
         \E t \in TaskIds : St.tasks[t].status = "offered" /\ St.tasks[t].offeredTo = a
    [] k = "task_assigned" ->
         /\ \E t \in TaskIds : St.tasks[t].status = "pending" /\ St.tasks[t].agentId = a
         /\ ~\E t \in TaskIds : St.tasks[t].status = "in_progress" /\ St.tasks[t].agentId = a
    [] k = "slack_inbox_message" ->
         IsLead(a) /\ \E m \in MsgIds : St.inbox[m].status = "unread" /\ St.inbox[m].agentId = a
    [] k = "unread_mentions" -> IsLead(a) /\ UnclaimedMentionChannels(St, a) # {}
    [] k = "tasks_finished" ->
         /\ IsLead(a)
         /\ \E t \in TaskIds : /\ St.tasks[t].status \in {"completed", "failed"}
                               /\ St.tasks[t].notifiedAt = NoTime
                               /\ ~IsLead(St.tasks[t].agentId)
    [] k = "pool_tasks_available" ->
         ~IsLead(a) /\ \E t \in TaskIds : St.tasks[t].status = "unassigned"

\* C5: a poll returns kind k only if no kind before k in the order task_offered,
\* task_assigned, slack_inbox_message, unread_mentions, tasks_finished,
\* pool_tasks_available was eligible for the agent; with task_offered and unread_mentions
\* both eligible it returns task_offered
C5_PriorityOrdering ==
  \A a \in Agents : \A r \in PollOutcomes(Cur, a) :
    /\ r.trigger.type # "null" =>
         /\ Eligible(Cur, a, r.trigger.type)
         /\ \A i \in 1..(Rank(r.trigger.type) - 1) : ~Eligible(Cur, a, Kinds[i])
    /\ r.trigger.type = "null" => \A i \in 1..Len(Kinds) : ~Eligible(Cur, a, Kinds[i])
    /\ Eligible(Cur, a, "task_offered") /\ Eligible(Cur, a, "unread_mentions")
         => r.trigger.type = "task_offered"

\* a lead's poll has just returned task_offered while a channel still has unread,
\* unclaimed mentions for it
C5_Witness ==
  /\ lastOp.op = "poll" /\ lastOp.ret.type = "task_offered"
  /\ IsLead(lastOp.agent)
  /\ UnclaimedMentionChannels(Cur, lastOp.agent) # {}

\* ---------------------------------------------------------------- the Reaper
\* C7: a Reaper run, whatever its timeout, leaves in its claimed state every reviewing
\* task, processing message and claimed channel whose claim is no older than the timeout
C7_NoEarlyRelease ==
  \A timeout \in 0..MaxTimeout :
    /\ \A t \in TaskIds :
         tasks[t].status = "reviewing" /\ now - tasks[t].lastUpdatedAt <= timeout
           => releaseStaleReviewingTasks(tasks, timeout, now)[t] = tasks[t]
    /\ \A m \in MsgIds :
         inbox[m].status = "processing" /\ now - inbox[m].lastUpdatedAt <= timeout
           => releaseStaleProcessingInbox(inbox, timeout, now)[m] = inbox[m]
    /\ \A a \in Agents, c \in Channels :
         (readState[a][c].processingSince # NoTime
            /\ now - readState[a][c].processingSince <= timeout)
           => releaseStaleMentionProcessing(readState, timeout, now)[a][c] = readState[a][c]

\* a Reaper run over the tasks has just ended and a claim of age MaxTimeout at most is
\* still in place
C7_Witness ==
  /\ lastOp.op = "release"
  /\ \E t \in TaskIds :
       tasks[t].status = "reviewing" /\ now - tasks[t].lastUpdatedAt <= MaxTimeout
                                     /\ now - tasks[t].lastUpdatedAt > 0

\* the state one Reaper run with this timeout leaves
Reaped(St, timeout) ==
  [tasks |-> releaseStaleReviewingTasks(St.tasks, timeout, now),
   inbox |-> releaseStaleProcessingInbox(St.inbox, timeout, now),
   readState |-> releaseStaleMentionProcessing(St.readState, timeout, now)]

\* the round trip of the tasks and of the channels: pre-claim state restored, and the
\* agent's next claim returns the same record
RoundTripTasksAndChannels(timeout) ==
  /\ \A t \in TaskIds :
       tasks[t].status = "reviewing" /\ now - tasks[t].lastUpdatedAt > timeout
         => LET St == Reaped(Cur, timeout)
            IN /\ St.tasks[t].status = "offered"
               /\ St.tasks[t].offeredTo = tasks[t].offeredTo
               /\ claimOfferedTask(St.tasks, t, tasks[t].offeredTo, now).ret = {t}
  /\ \A a \in Agents, c \in Channels :
       (readState[a][c].processingSince # NoTime
          /\ now - readState[a][c].processingSince > timeout)
         => LET St == Reaped(Cur, timeout)
            IN /\ St.readState[a][c].processingSince = NoTime
               /\ c \in claimMentions(St.readState, mentions, a, now).ret

\* the original statement of C6: after one Reaper run every stale claim is back in its
\* pre-claim state and the next claim call of the same agent returns the same record
C6_Original ==
  \A timeout \in 0..MaxTimeout :
    /\ RoundTripTasksAndChannels(timeout)
    /\ \A m \in MsgIds :
         inbox[m].status = "processing" /\ now - inbox[m].lastUpdatedAt > timeout
           => LET St == Reaped(Cur, timeout)
              IN /\ St.inbox[m].status = "unread"
                 /\ \A limit \in 1..MaxLimit :
                      m \in claimInboxMessages(St.inbox, inbox[m].agentId, limit, now).ret

\* C6: after one Reaper run every stale claim is back in its pre-claim state (reviewing ->
\* offered, processing -> unread, processingSince -> null); the next claim call of the
\* same agent returns the same task or channel, and returns the same inbox message when
\* the message is among the `limit` oldest unread messages of the agent
C6_StaleClaimRoundTrip ==
  \A timeout \in 0..MaxTimeout :
    /\ RoundTripTasksAndChannels(timeout)
    /\ \A m \in MsgIds :
         inbox[m].status = "processing" /\ now - inbox[m].lastUpdatedAt > timeout
           => LET St == Reaped(Cur, timeout)
                  a == inbox[m].agentId
              IN /\ St.inbox[m].status = "unread"
                 /\ \A limit \in 1..MaxLimit :
                      LET older == {u \in MsgIds : /\ u < m
                                                   /\ St.inbox[u].status = "unread"
                                                   /\ St.inbox[u].agentId = a}
                      IN (m \in claimInboxMessages(St.inbox, a, limit, now).ret)
                           <=> Cardinality(older) < limit
                 /\ m \in claimInboxMessages(St.inbox, a, PollInboxLimit, now).ret

\* the Reaper has just put two messages back to unread: the agent's next claim of one
\* message returns the older of the two only
C6_Witness ==
  /\ lastOp.op = "release"
  /\ Cardinality(lastOp.ret.msgs) = 2
  /\ \A m \in lastOp.ret.msgs : inbox[m].status = "unread"

\* ---------------------------------------------------------------- fall-through
\* every channel with unread mentions for the lead is being processed by an earlier
\* caller, and no kind before unread_mentions is eligible: the claim of the top candidate
\* is lost
MentionRaceLost(St, a) ==
  /\ IsLead(a)
  /\ ~Eligible(St, a, "task_offered")
  /\ ~Eligible(St, a, "task_assigned")
  /\ ~Eligible(St, a, "slack_inbox_message")
  /\ \E c \in Channels : HasUnreadMention(St.readState, mentions, a, c)
  /\ claimMentions(St.readState, mentions, a, now).ret = {}

\* the original statement of C4: a poll whose claim of the top-priority candidate is lost
\* returns null
C4_Original ==
  \A a \in Agents : MentionRaceLost(Cur, a) =>
    \A r \in PollOutcomes(Cur, a) : r.trigger.type = "null"

\* C4: a poll whose claim of the top-priority candidate is lost returns no trigger of that
\* kind and leaves the lost records alone; it goes on to the kinds below and returns the
\* first one whose claim succeeds, null when there is none
C4_LostClaimFallsThrough ==
  \A a \in Agents : MentionRaceLost(Cur, a) =>
    \A r \in PollOutcomes(Cur, a) :
      /\ r.trigger.type # "unread_mentions"
      /\ r.readState = readState
      /\ Eligible(Cur, a, "tasks_finished") =>
           /\ r.trigger.type = "tasks_finished"
           /\ r.trigger.tasks = getRecentlyFinishedWorkerTasks(tasks)
           /\ \A t \in r.trigger.tasks : r.tasks[t].notifiedAt # NoTime
      /\ ~Eligible(Cur, a, "tasks_finished") => r.trigger.type = "null" /\ r.tasks = tasks

\* a lead's poll has just returned tasks_finished although a channel has unread mentions
\* for it that an earlier poll holds
C4_Witness ==
  /\ lastOp.op = "poll" /\ lastOp.ret.type = "tasks_finished"
  /\ \E c \in Channels :
       /\ HasUnreadMention(readState, mentions, lastOp.agent, c)
       /\ readState[lastOp.agent][c].processingSince # NoTime

\* ---------------------------------------------------------------- sequential polls
\* the records polls of agent a could claim in store St; a pending task only while the
\* agent has a free slot for it
ClaimableRecords(St, a) ==
  {Rec("task", t, "-") : t \in {u \in TaskIds :
      \/ St.tasks[u].status = "offered" /\ St.tasks[u].offeredTo = a
      \/ /\ St.tasks[u].status = "pending" /\ St.tasks[u].agentId = a
         /\ Eligible(St, a, "task_assigned")}}
  \cup {Rec("msg", m, "-") : m \in {u \in MsgIds :
      IsLead(a) /\ St.inbox[u].status = "unread" /\ St.inbox[u].agentId = a}}
  \cup {Rec("chan", 0, c) : c \in {d \in Channels :
      IsLead(a) /\ d \in UnclaimedMentionChannels(St, a)}}
  \cup {Rec("finished", t, "-") : t \in {u \in TaskIds :
      /\ IsLead(a)
      /\ St.tasks[u].status \in {"completed", "failed"}
      /\ St.tasks[u].notifiedAt = NoTime
      /\ ~IsLead(St.tasks[u].agentId)}}

\* the records a trigger hands over
TriggerRecords(tr) ==
  {Rec(IF tr.type = "tasks_finished" THEN "finished" ELSE "task", t, "-") : t \in tr.tasks}
  \cup {Rec("msg", m, "-") : m \in tr.msgs}
  \cup {Rec("chan", 0, c) : c \in tr.chans}

\* the trigger sequences k polls of agent a, one after the other, can return
RECURSIVE PollRuns(_, _, _)
PollRuns(St, a, k) ==
  IF k = 0 THEN {<<>>}
  ELSE UNION {{<<r.trigger>> \o run : run \in PollRuns(StoreOf(r), a, k - 1)} :
                r \in PollOutcomes(St, a)}

\* agent a has no more pending tasks than free slots, so that every record of
\* ClaimableRecords can be claimed by a poll
WithinCapacity(St, a) ==
  Cardinality({t \in TaskIds : St.tasks[t].agentId = a
                                 /\ St.tasks[t].status \in {"pending", "in_progress"}})
    <= AgentMaxTasks
  \/ ~Eligible(St, a, "task_assigned")

\* the original statement of C3: with K claimable records, K polls return K pairwise
\* distinct triggers and the next one claims nothing
C3_Original ==
  \A a \in Agents : WithinCapacity(Cur, a) =>
    LET K == Cardinality(ClaimableRecords(Cur, a))
    IN \A run \in PollRuns(Cur, a, K + 1) :
         /\ \A i \in 1..K : run[i].type \in ClaimedKinds
         /\ \A i, j \in 1..K : i # j => run[i] # run[j]
         /\ run[K + 1].type \notin ClaimedKinds

\* C3: with K claimable records and no other activity, K + 1 polls of the agent hand over
\* each record at most once and only records that were claimable; a trigger may carry
\* several records, so at most K of the polls return a claimed trigger, and the (K+1)th
\* returns none (null, or the unclaimed pool_tasks_available)
C3_NoDuplicateDelivery ==
  \A a \in Agents :
    LET K == Cardinality(ClaimableRecords(Cur, a))
    IN \A run \in PollRuns(Cur, a, K + 1) :
         /\ \A i, j \in 1..(K + 1) :
              i # j => TriggerRecords(run[i]) \cap TriggerRecords(run[j]) = {}
         /\ \A i \in 1..(K + 1) :
              run[i].type \in ClaimedKinds =>
                /\ TriggerRecords(run[i]) # {}
                /\ TriggerRecords(run[i]) \subseteq ClaimableRecords(Cur, a)
         /\ \A i \in 1..K : run[i].type \notin ClaimedKinds => run[i + 1] = run[i]
         /\ run[K + 1].type \notin ClaimedKinds

\* a poll has just handed two inbox messages over in one trigger
C3_Witness ==
  /\ lastOp.op = "poll" /\ lastOp.ret.type = "slack_inbox_message"
  /\ Cardinality(lastOp.ret.msgs) = 2
  /\ \A m \in lastOp.ret.msgs : inbox[m].status = "processing"

\* ---------------------------------------------------------------- offer scenario
\* task t is offered to agent a and nothing else is eligible for a
OnlyOffer(a, t) ==
  /\ getOfferedTasksForAgent(tasks, a) = {t}
  /\ getPendingTaskForAgent(tasks, a) = {}
  /\ \A k \in ClaimedKinds \ {"task_offered"} : ~Eligible(Cur, a, k)
  /\ ~Eligible(Cur, a, "pool_tasks_available")

\* the first two polls of the scenario and the accept: task_offered and reviewing, then
\* null, then pending
OfferScenarioStart(a, t) ==
  \A r1 \in PollOutcomes(Cur, a) :
    /\ r1.trigger.type = "task_offered" /\ r1.trigger.tasks = {t}
    /\ r1.tasks[t].status = "reviewing"
    /\ \A r2 \in PollOutcomes(StoreOf(r1), a) :
         /\ r2.trigger.type = "null"
         /\ acceptTask(r2.tasks, t, a, now).ret = {t}
         /\ acceptTask(r2.tasks, t, a, now).tasks[t].status = "pending"

\* the responses to the third poll of the scenario
ThirdPolls(a, t) ==
  UNION {UNION {PollOutcomes([StoreOf(r2) EXCEPT !.tasks = acceptTask(r2.tasks, t, a, now).tasks], a) :
                  r2 \in PollOutcomes(StoreOf(r1), a)} :
           r1 \in PollOutcomes(Cur, a)}

\* the original statement of C8: the third poll, after the accept, returns null
C8_Original ==
  \A a \in Agents, t \in TaskIds : OnlyOffer(a, t) =>
    /\ OfferScenarioStart(a, t)
    /\ \A r3 \in ThirdPolls(a, t) : r3.trigger.type = "null"

\* C8: with T1 offered to A and nothing else eligible for A, A's first poll returns
\* task_offered for T1 and T1 becomes reviewing; the second poll returns null; after
\* accept(T1) T1 is pending; the third poll returns task_assigned for T1 and T1 becomes
\* in_progress, unless A is already running a task, in which case it returns null
C8_OfferAcceptScenario ==
  \A a \in Agents, t \in TaskIds : OnlyOffer(a, t) =>
    /\ OfferScenarioStart(a, t)
    /\ \A r3 \in ThirdPolls(a, t) :
         IF hasCapacity(tasks, a)
         THEN /\ r3.trigger.type = "task_assigned" /\ r3.trigger.tasks = {t}
              /\ r3.tasks[t].status = "in_progress"
         ELSE r3.trigger.type = "null" /\ r3.tasks[t].status = "pending"

\* a poll has just started a task that had been offered to the polling agent and accepted
C8_Witness ==
  /\ lastOp.op = "poll" /\ lastOp.ret.type = "task_assigned"
  /\ \E t \in lastOp.ret.tasks :
       /\ tasks[t].status = "in_progress"
       /\ tasks[t].offeredTo = lastOp.agent
       /\ tasks[t].agentId = lastOp.agent

\* ---------------------------------------------------------------- pool
\* unassigned tasks exist and no claimed kind is eligible for a or for b
PoolOnly(a, b) ==
  /\ a # b
  /\ getUnassignedTasksCount(tasks) > 0
  /\ \A k \in ClaimedKinds : ~Eligible(Cur, a, k) /\ ~Eligible(Cur, b, k)

\* the polls of a and b, in this order, both return pool_tasks_available with the count of
\* unassigned tasks and change no task
BothSeePool(a, b) ==
  \A ra \in PollOutcomes(Cur, a) : \A rb \in PollOutcomes(StoreOf(ra), b) :
    /\ ra.trigger.type = "pool_tasks_available"
    /\ rb.trigger.type = "pool_tasks_available"
    /\ ra.trigger.count = rb.trigger.count
    /\ ra.trigger.count = getUnassignedTasksCount(tasks)
    /\ rb.tasks = tasks

C11_ClaimInboxOldestInOrder ==
  \A a \in Agents, limit \in 1..MaxLimit :
    LET r == claimInboxMessages(inbox, a, limit, now)
        unread == {m \in MsgIds : inbox[m].status = "unread" /\ inbox[m].agentId = a}
        k == Min(limit, Cardinality(unread))
    IN /\ \A m \in MsgIds \ r.ret : r.inbox[m] = inbox[m]
       /\ \A rows \in claimInboxMessagesRows(inbox, a, limit, now) :
            /\ Len(rows) = k
            /\ \A i \in 1..k :
                 /\ rows[i] \in unread
                 /\ r.inbox[rows[i]].status = "processing"
                 /\ Cardinality({m \in unread : m < rows[i]}) = i - 1

\* an agent has two unread messages: a claim with limit 2 returns both rows
C11_FailingInput ==
  \E a \in Agents :
    Cardinality(claimInboxMessages(inbox, a, MaxLimit, now).ret) >= 2

C13_TasksFinishedExact ==
  LET r == claimTasksFinished(tasks, now)
      want == {t \in TaskIds : /\ tasks[t].status \in {"completed", "failed"}
                               /\ tasks[t].notifiedAt = NoTime
                               /\ ~IsLead(tasks[t].agentId)}
  IN /\ r.ret = want
     /\ r.ret = {t \in TaskIds : r.tasks[t].notifiedAt # tasks[t].notifiedAt}
     /\ \A t \in want : r.tasks[t] = [tasks[t] EXCEPT !.notifiedAt = now]
     /\ \A t \in TaskIds \ want : r.tasks[t] = tasks[t]

\* a poll has just returned tasks_finished for one task while another finished task,
\* notified by an earlier poll, was left out
C13_Witness ==
  /\ lastOp.op = "poll" /\ lastOp.ret.type = "tasks_finished"
  /\ \E t \in TaskIds \ lastOp.ret.tasks :
       tasks[t].status \in {"completed", "failed"} /\ tasks[t].notifiedAt # NoTime

C15_CompletionFromClaimed ==
  /\ \A t \in TaskIds : \A a \in Agents :
       (tasks[t].status \in {"offered", "reviewing"} /\ tasks[t].offeredTo = a) =>
         /\ LET r == acceptTask(tasks, t, a, now)
            IN /\ r.ret = {t}
               /\ r.tasks[t].status = "pending"
               /\ r.tasks[t].agentId = a
         /\ LET r == rejectTask(tasks, t, a, now)
            IN /\ r.ret = {t}
               /\ r.tasks[t].status = "unassigned"
               /\ r.tasks[t].offeredTo = NoAgent
  /\ \A m \in MsgIds : \A st \in {"responded", "delegated"} :
       (inbox[m].status \in {"unread", "processing"}) =>
         LET r == markInboxMessage(inbox, m, st, now)
         IN /\ r.ret = {m}
            /\ r.inbox[m].status = st

\* a claimed task and a claimed message on which the completion operations act
C15_Witness ==
  /\ \E t \in TaskIds :
       /\ tasks[t].status = "reviewing"
       /\ acceptTask(tasks, t, tasks[t].offeredTo, now).ret = {t}
       /\ rejectTask(tasks, t, tasks[t].offeredTo, now).ret = {t}
  /\ \E m \in MsgIds :
       /\ inbox[m].status = "processing"
       /\ markInboxMessage(inbox, m, "delegated", now).inbox[m].status = "delegated"


\* C16: in every reachable state a task has offeredTo set if and only if its
\* status is offered or reviewing.
C16_OfferedToIffOffering ==
  \A t \in TaskIds :
    tasks[t].status # "absent" =>
      (tasks[t].offeredTo # NoAgent <=> tasks[t].status \in {"offered", "reviewing"})

\* a task offered to an agent, on which that agent's acceptTask succeeds
C16_FailingInput ==
  \E t \in TaskIds :
    /\ tasks[t].status \in {"offered", "reviewing"}
    /\ LET r == acceptTask(tasks, t, tasks[t].offeredTo, now)
       IN r.ret = {t} /\ r.tasks[t].status = "pending" /\ r.tasks[t].offeredTo # NoAgent


InboxTerminal == {"read", "responded", "delegated"}

\* C18: the inbox statuses read, responded and delegated are terminal: on a
\* message that has one of them, no claim by any agent with any limit, no
\* completion call (on it or on another message) and no Reaper run with any
\* timeout changes the record, and neither a claim nor a completion call
\* returns it.
C18_TerminalInboxStatus ==
  \A m \in MsgIds :
    inbox[m].status \in InboxTerminal =>
      /\ \A a \in Agents : \A limit \in (1..MaxLimit) \cup {PollInboxLimit} :
           LET r == claimInboxMessages(inbox, a, limit, now)
           IN m \notin r.ret /\ r.inbox[m] = inbox[m]
      /\ \A st \in {"responded", "delegated"} :
           /\ markInboxMessage(inbox, m, st, now).ret = {}
           /\ \A m2 \in MsgIds : markInboxMessage(inbox, m2, st, now).inbox[m] = inbox[m]
      /\ \A timeout \in 0..MaxTimeout :
           releaseStaleProcessingInbox(inbox, timeout, now)[m] = inbox[m]

\* a message completed at an earlier time, next to a message still open on
\* which claims, completion calls and the Reaper do act
C18_Witness ==
  \E m, m2 \in MsgIds :
    /\ inbox[m].status \in {"responded", "delegated"}
    /\ inbox[m].lastUpdatedAt < now
    /\ inbox[m2].status = "processing"
    /\ m2 \in StaleProcessing(inbox, 0, now)
    /\ markInboxMessage(inbox, m, "delegated", now).ret = {}
    /\ releaseStaleProcessingInbox(inbox, 0, now)[m2].status = "unread"


\* the claim marker of (a, c) in flight: the row exists and a mention of the
\* agent in the channel is newer than lastReadAt
ClaimInFlight(a, c) ==
  /\ readState[a][c].exists
  /\ readState[a][c].processingSince <= now
  /\ mentions[a][c] # NoTime
  /\ mentions[a][c] > readState[a][c].lastReadAt

\* C19: a non-null processingSince on (agentId, channelId) implies an in-flight
\* claim on that channel's unread mentions for that agent: the marker is only
\* ever set, to the time of the call, by a poll of that agent whose
\* claimMentions found a mention newer than lastReadAt and returned the channel;
\* while set it keeps its value until a release or the Reaper clears it; and as
\* long as it is set a mention newer than lastReadAt exists.
C19_ProcessingSinceIsClaim ==
  /\ [](\A a \in Agents : \A c \in Channels :
         readState[a][c].processingSince # NoTime => ClaimInFlight(a, c))
  /\ [][\A a \in Agents : \A c \in Channels :
          /\ (readState[a][c].processingSince = NoTime
                /\ readState'[a][c].processingSince # NoTime) =>
               /\ HasUnreadMention(readState, mentions, a, c)
               /\ c \in claimMentions(readState, mentions, a, now).ret
               /\ readState'[a][c].processingSince = now
               /\ lastOp'.op = "poll" /\ lastOp'.agent = a
               /\ lastOp'.ret.type = "unread_mentions" /\ c \in lastOp'.ret.chans
          /\ readState[a][c].processingSince # NoTime =>
               readState'[a][c].processingSince \in {readState[a][c].processingSince, NoTime}
      ]_vars

\* a claim in flight on a channel where a further mention arrived after the claim
C19_Witness ==
  \E a \in Agents : \E c \in Channels :
    /\ readState[a][c].processingSince # NoTime
    /\ readState[a][c].processingSince < mentions[a][c]
    /\ readState[a][c].lastReadAt < readState[a][c].processingSince


\* the update of a function changes the status of a task / of an inbox message
TaskStatusChanged(T2, t) == T2[t].status # tasks[t].status
InboxStatusChanged(I2, m) == I2[m].status # inbox[m].status

\* C20: every change of a task's or an inbox message's status is made by a
\* transition function whose update is guarded on the record's current status:
\* whichever record a function is called on, by whichever agent, it changes a
\* status only when the status it replaces is one of the function's source
\* statuses (claimOfferedTask: offered; acceptTask, rejectTask: offered or
\* reviewing; startTask: pending; the Reaper: reviewing, processing;
\* claimInboxMessages: unread; the inbox completion calls: unread or processing).
C20_StatusChangesGuarded ==
  /\ \A t \in TaskIds :
       /\ \A a \in Agents :
            /\ TaskStatusChanged(claimOfferedTask(tasks, t, a, now).tasks, t)
                 => tasks[t].status = "offered"
            /\ TaskStatusChanged(acceptTask(tasks, t, a, now).tasks, t)
                 => tasks[t].status \in {"offered", "reviewing"}
            /\ TaskStatusChanged(rejectTask(tasks, t, a, now).tasks, t)
                 => tasks[t].status \in {"offered", "reviewing"}
       /\ TaskStatusChanged(startTask(tasks, t, now), t) => tasks[t].status = "pending"
       /\ \A timeout \in 0..MaxTimeout :
            TaskStatusChanged(releaseStaleReviewingTasks(tasks, timeout, now), t)
              => tasks[t].status = "reviewing"
  /\ \A m \in MsgIds :
       /\ \A a \in Agents : \A limit \in 1..MaxLimit :
            InboxStatusChanged(claimInboxMessages(inbox, a, limit, now).inbox, m)
              => inbox[m].status = "unread"
       /\ \A st \in {"responded", "delegated"} :
            InboxStatusChanged(markInboxMessage(inbox, m, st, now).inbox, m)
              => inbox[m].status \in {"unread", "processing"}
       /\ \A timeout \in 0..MaxTimeout :
            InboxStatusChanged(releaseStaleProcessingInbox(inbox, timeout, now), m)
              => inbox[m].status = "processing"

\* a task that is not pending, which startTask(taskId) moves to in_progress
C20_FailingInput ==
  \E t \in TaskIds :
    /\ tasks[t].status \in {"unassigned", "offered", "reviewing"}
    /\ startTask(tasks, t, now)[t].status = "in_progress"


\* ---------------------------------------------------------------- the Reaper, run twice
\* one run of the Reaper at time n: the three release functions
ReapedAt(St, timeout, n) ==
  [tasks |-> releaseStaleReviewingTasks(St.tasks, timeout, n),
   inbox |-> releaseStaleProcessingInbox(St.inbox, timeout, n),
   readState |-> releaseStaleMentionProcessing(St.readState, timeout, n)]

\* result.changes of the three updates
ReapCount(St, timeout, n) ==
  Cardinality(StaleReviewing(St.tasks, timeout, n))
  + Cardinality(StaleProcessing(St.inbox, timeout, n))
  + Cardinality(StaleMentions(St.readState, timeout, n))

\* the second of two successive runs, at time n2, leaves the Store of the first and
\* releases nothing
SecondRunIdle(timeout, n2) ==
  LET S1 == ReapedAt(Cur, timeout, now)
  IN /\ ReapedAt(S1, timeout, n2) = S1
     /\ ReapCount(S1, timeout, n2) = 0

\* C21 as stated: whenever the second run happens after the first, with no claim in
\* between, it leaves the Store as the first run left it and returns a count of 0.
C21_Original ==
  \A timeout \in 0..MaxTimeout : \A n2 \in now..MaxTime : SecondRunIdle(timeout, n2)

\* C21: the Reaper is idempotent at one clock reading: a second run with the same
\* timeout and the same time as the first leaves the Store as the first left it and
\* returns 0; a later second run releases nothing the first run released, only
\* claims that were within the timeout at the first run and have aged past it.
C21_ReaperIdempotent ==
  \A timeout \in 0..MaxTimeout :
    /\ SecondRunIdle(timeout, now)
    /\ \A n2 \in now..MaxTime :
         LET S1 == ReapedAt(Cur, timeout, now)
         IN /\ StaleReviewing(S1.tasks, timeout, n2)
                 \subseteq {t \in TaskIds : tasks[t].status = "reviewing"}
                              \ StaleReviewing(tasks, timeout, now)
            /\ StaleProcessing(S1.inbox, timeout, n2)
                 \subseteq {m \in MsgIds : inbox[m].status = "processing"}
                              \ StaleProcessing(inbox, timeout, now)
            /\ StaleMentions(S1.readState, timeout, n2)
                 \subseteq {ac \in Agents \X Channels :
                               readState[ac[1]][ac[2]].processingSince # NoTime}
                              \ StaleMentions(readState, timeout, now)

\* the first run releases a stale claim while a younger claim stays in place
C21_Witness ==
  \E timeout \in 0..MaxTimeout :
    /\ ReapCount(Cur, timeout, now) >= 1
    /\ ReapedAt(Cur, timeout, now) # Cur
    /\ \E n2 \in now..MaxTime : ReapCount(ReapedAt(Cur, timeout, now), timeout, n2) >= 1


\* ---------------------------------------------------------------- registration
\* C22: registering the same agent id twice succeeds both times without error,
\* returns the same agent record both times, and leaves exactly one agent row with
\* that id (the row the first call left), whatever names the two calls carry and
\* whatever row the id had before.
C22_RegisterTwice ==
  \A a \in Agents : \A n1, n2 \in Names :
    LET r1 == registerAgent(agents, a, n1)
        r2 == registerAgent(r1.agents, a, n2)
    IN /\ r1.ok /\ r2.ok
       /\ r1.ret.status # "absent"
       /\ r2.ret = r1.ret
       /\ r2.agents = r1.agents
       /\ ~r2.created
       /\ \A b \in Agents \ {a} : r2.agents[b] = agents[b]

\* the runner has registered an id that had no row, and registers it again under
\* another name
C22_Witness ==
  /\ runner.pc = "polling"
  /\ agents[runner.agent] = [status |-> "idle", name |-> RunnerName]
  /\ \E n2 \in Names \ {RunnerName} :
       LET r2 == registerAgent(agents, runner.agent, n2)
       IN r2.ok /\ ~r2.created /\ r2.ret.name = RunnerName


\* C23: registering an agent id that already exists with status offline sets its
\* status to idle; registering one that exists with status idle or busy leaves its
\* status (and the whole row) unchanged; in both cases nothing else of the row and
\* no other row changes, and the response carries the row as it is afterwards.
C23_RegisterRevives ==
  \A a \in Agents : \A name \in Names :
    agents[a].status # "absent" =>
      LET r == registerAgent(agents, a, name)
      IN /\ r.ok /\ ~r.created
         /\ agents[a].status = "offline" =>
              r.agents[a] = [agents[a] EXCEPT !.status = "idle"]
         /\ agents[a].status \in {"idle", "busy"} => r.agents[a] = agents[a]
         /\ r.ret = r.agents[a]
         /\ \A b \in Agents \ {a} : r.agents[b] = agents[b]

\* the runner has registered an id whose row was busy, and the row still is
C23_Witness ==
  /\ runner.pc = "polling"
  /\ agents[runner.agent].status = "busy"
  /\ agents[runner.agent].name # RunnerName


\* ---------------------------------------------------------------- the Poll Loop
\* C24: the Poll Loop never gives up permanently: a poll window that has used up its
\* max wait without a trigger is followed by a fresh poll window (the count of
\* empty windows in a row goes up, the loop stays in Polling), and the loop leaves
\* Polling only with a trigger in hand or by the exit of a shutdown signal, after
\* any number of empty windows in a row.
C24_PollLoopNeverGivesUp ==
  [][/\ (runner.pc = "polling" /\ runner.polls = MaxPolls /\ runner'.polls # runner.polls) =>
          /\ runner'.pc = "polling"
          /\ runner'.polls = 0
          /\ runner'.windows = Min(runner.windows + 1, MaxWindows)
          /\ runner'.processExit = NoExit
     /\ (runner.pc = "polling" /\ runner'.pc # "polling") =>
          \/ /\ runner'.pc = "dispatch"
             /\ lastOp'.op = "poll" /\ lastOp'.ret.type # "null"
             /\ runner'.trigger = lastOp'.ret.type
          \/ /\ runner'.pc = "terminated"
             /\ runner.signalled /\ runner'.cause = "signal"
    ]_vars

\* MaxWindows empty windows in a row lie behind the loop, and it is polling in a
\* fresh window
C24_Witness ==
  /\ runner.pc = "polling"
  /\ runner.windows = MaxWindows
  /\ runner.polls = 0
  /\ ~runner.signalled


\* C25: after a spawned process exits with a non-zero code the Poll Loop terminates
\* (with that code, the error logged) if continue-on-error mode is not configured;
\* if it is configured, the error is logged and the loop returns to Polling in a
\* fresh window; a zero exit returns the loop to Polling and logs no error. (A
\* shutdown signal that exits the process at this point is the one other step.)
C25_ExitCodeHandling ==
  [][(runner.pc = "exited" /\ runner'.pc # "exited" /\ runner'.cause # "signal") =>
        /\ runner.exitCode = 0 =>
             /\ runner'.pc = "polling" /\ runner'.polls = 0
             /\ ~runner'.errorLogged
             /\ runner'.processExit = NoExit
        /\ (runner.exitCode # 0 /\ ~runner.yolo) =>
             /\ runner'.pc = "terminated"
             /\ runner'.cause = "child_failed"
             /\ runner'.processExit = runner.exitCode
             /\ runner'.errorLogged
        /\ (runner.exitCode # 0 /\ runner.yolo) =>
             /\ runner'.pc = "polling" /\ runner'.polls = 0
             /\ runner'.errorLogged
             /\ runner'.processExit = NoExit
    ]_vars

\* in continue-on-error mode a session has failed, the error is logged and the loop
\* is polling again
C25_Witness ==
  /\ runner.yolo
  /\ runner.pc = "polling"
  /\ runner.errorLogged
  /\ runner.processExit = NoExit


\* C26: a failed poll call or a failed register call never terminates the agent
\* process: the process ends only on a shutdown signal or on a failed session, a
\* failed register call leaves the runner registering or polling, and a failed
\* poll round leaves it polling in the same window.
C26_TransportFailureIsMiss ==
  /\ [](runner.pc = "terminated" => runner.cause \in {"signal", "child_failed"})
  /\ [][/\ (runner.pc = "start" /\ runner'.cause # "signal") =>
             runner'.pc \in {"start", "polling"}
        /\ (runner.pc = "polling" /\ runner'.polls = runner.polls + 1) =>
             /\ runner'.pc = "polling"
             /\ runner'.processExit = NoExit
       ]_vars

\* the register call of the runner has failed
C26_FailingInput ==
  /\ runner.pc = "terminated"
  /\ runner.cause = "register_failed"
  /\ runner.processExit = 1
  /\ runner.iteration = 0


ClaimedForRunner(t) ==
  \/ tasks[t].status = "reviewing" /\ tasks[t].offeredTo = runner.agent
  \/ tasks[t].status = "in_progress" /\ tasks[t].agentId = runner.agent

\* C28: on an interrupt or terminate signal the agent process flushes the
\* supervised-process registry and exits without releasing any claim: the signal
\* and the exit that follows the flush leave every Store row as it is, the exit
\* status is 0, and once the process has ended a record claimed for its agent
\* changes only by a completion call (accept, reject, completion of the task) or by
\* the Reaper.
C28_ShutdownKeepsClaims ==
  [][/\ (runner'.signalled # runner.signalled
           \/ (runner'.cause = "signal" /\ runner.cause # "signal")) =>
          UNCHANGED <<tasks, inbox, readState, mentions, agents>>
     /\ (runner'.cause = "signal" /\ runner.cause # "signal") =>
          /\ runner.signalled
          /\ runner'.pc = "terminated"
          /\ runner'.processExit = 0
     /\ \A t \in TaskIds :
          (runner.pc = "terminated" /\ ClaimedForRunner(t) /\ tasks'[t] # tasks[t]) =>
            \/ CallAcceptTask /\ tasks'[t].status = "pending"
            \/ CallRejectTask /\ tasks'[t].status = "unassigned"
            \/ FinishTask /\ tasks'[t].status \in {"completed", "failed"}
            \/ ReleaseStaleReviewingTasks /\ tasks'[t].status = "offered"
    ]_vars

\* the process has ended on a signal, and a task it claimed earlier is still under
\* review for its agent
C28_Witness ==
  /\ runner.pc = "terminated"
  /\ runner.cause = "signal"
  /\ \E t \in TaskIds :
       /\ tasks[t].status = "reviewing"
       /\ tasks[t].offeredTo = runner.agent
       /\ tasks[t].lastUpdatedAt < now


\* ---------------------------------------------------------------- not found
\* C29: every claim, completion or cancel operation called with an id that has no
\* row in the Store returns an empty result and leaves the Store unchanged:
\* claimOfferedTask, acceptTask, rejectTask, startTask and cancelTask on a task id,
\* the inbox completion calls on a message id, for every calling agent.
C29_NotFoundIsNoOp ==
  /\ \A t \in TaskIds :
       tasks[t].status = "absent" =>
         /\ \A a \in Agents :
              /\ claimOfferedTask(tasks, t, a, now) = [ret |-> {}, tasks |-> tasks]
              /\ acceptTask(tasks, t, a, now) = [ret |-> {}, tasks |-> tasks]
              /\ rejectTask(tasks, t, a, now) = [ret |-> {}, tasks |-> tasks]
         /\ startTask(tasks, t, now) = tasks
         /\ \A reason \in Reasons :
              cancelTask(tasks, t, reason, now) = [ret |-> {}, tasks |-> tasks]
  /\ \A m \in MsgIds :
       inbox[m].status = "absent" =>
         \A st \in {"responded", "delegated"} :
           markInboxMessage(inbox, m, st, now) = [ret |-> {}, inbox |-> inbox]

\* the Store holds a task and a message, and a second task id and a second message
\* id with no row, on which the operations are called
C29_Witness ==
  /\ \E t, t2 \in TaskIds :
       /\ tasks[t].status = "absent"
       /\ tasks[t2].status \in {"pending", "in_progress"}
       /\ cancelTask(tasks, t, DefaultReason, now).ret = {}
       /\ cancelTask(tasks, t2, DefaultReason, now).ret = {t2}
  /\ \E m, m2 \in MsgIds :
       /\ inbox[m].status = "absent"
       /\ inbox[m2].status = "unread"
       /\ markInboxMessage(inbox, m, "responded", now).ret = {}


\* ---------------------------------------------------------------- producer layer
\* a step that leaves a webhook handler's call as the last call
HandlerStep == lastOp'.op \in {"handlePullRequest", "handleIssue"}
\* rows a step creates, and the status each gets
NewTaskRows == {t \in TaskIds : tasks[t].status = "absent" /\ tasks'[t].status # "absent"}
OldTaskRows == {t \in TaskIds : tasks[t].status # "absent"}
NoClaimMade ==
  /\ \A t \in TaskIds : tasks'[t].status = "reviewing" => tasks[t].status = "reviewing"
  /\ inbox' = inbox
  /\ readState' = readState

\* C30 as stated: a webhook handler only creates rows, each in a pre-claim status,
\* changes the status of no existing row and makes no claim.
C30_Original ==
  [][HandlerStep =>
       /\ \A t \in NewTaskRows : tasks'[t].status \in {"unassigned", "offered", "pending"}
       /\ \A t \in OldTaskRows : tasks'[t].status = tasks[t].status
       /\ NoClaimMade]_vars

\* C30 amended: a webhook handler creates rows only in a pre-claim status (pending
\* for the lead, unassigned without one) and makes no claim; the one change it makes
\* to an existing row is failTask, on the task found for an unassigned or
\* review_request_removed event, which leaves that one task failed.
C30_ProducerCreatesOrFails ==
  [][HandlerStep =>
       /\ \A t \in NewTaskRows :
            /\ tasks'[t].status \in {"unassigned", "pending"}
            /\ tasks'[t].status = "pending" <=> findLeadAgent(agents) # NoAgent
            /\ lastOp'.ret.type \in CreatingActions
       /\ \A t \in OldTaskRows :
            tasks'[t] # tasks[t] =>
              /\ tasks'[t].status = "failed"
              /\ lastOp'.ret.type \in CancellingActions
              /\ lastOp'.arg = t
       /\ NoClaimMade]_vars

\* an unassigned event has just failed a task a handler created, next to a
\* task a handler created in the pool or for the lead
C30_Witness ==
  /\ lastOp.op \in {"handlePullRequest", "handleIssue"}
  /\ lastOp.ret.type = "unassigned"
  /\ lastOp.ret.tasks = {lastOp.arg}
  /\ lastOp.arg \in TaskIds
  /\ tasks[lastOp.arg].status = "failed"
  /\ tasks[lastOp.arg].finishedAt = now
  /\ \E t \in TaskIds \ {lastOp.arg} : tasks[t].status \in {"unassigned", "pending"}


\* ---------------------------------------------------------------- work directive
\* the prompt the runner was started with
DefaultPrompt == [cmd |-> "defaultPrompt", taskId |-> NoTaskId]
\* trigger.taskId of a trigger that carries one task
TriggerTaskId(tr) == IF tr.tasks = {} THEN NoTaskId ELSE CHOOSE t \in tr.tasks : TRUE

\* buildPromptForTrigger(trigger, defaultPrompt)
buildPromptForTrigger(tr) ==
  CASE tr.type = "task_assigned" -> [cmd |-> "/work-on-task", taskId |-> TriggerTaskId(tr)]
    [] tr.type = "task_offered" -> [cmd |-> "/review-offered-task", taskId |-> TriggerTaskId(tr)]
    [] tr.type = "unread_mentions" -> [cmd |-> "/swarm-chat", taskId |-> NoTaskId]
    [] tr.type = "pool_tasks_available" -> DefaultPrompt
    [] OTHER -> DefaultPrompt

\* the three directives the claim names
NamedDirectives(tr) ==
  LET p == buildPromptForTrigger(tr)
  IN /\ tr.type = "task_assigned" =>
          p.cmd = "/work-on-task" /\ tr.tasks = {p.taskId}
     /\ tr.type = "task_offered" =>
          p.cmd = "/review-offered-task" /\ tr.tasks = {p.taskId}
     /\ tr.type = "unread_mentions" => p.cmd = "/swarm-chat"

\* C31: for every trigger a poll returns, of any kind, the work directive is built
\* from the trigger's kind and payload (it is not the prompt the runner was started
\* with): task_assigned gives work-on-task with its taskId, task_offered gives
\* review-offered-task with its taskId, unread_mentions gives the mentions check.
C31_DirectiveFromTrigger ==
  (lastOp.op = "poll" /\ lastOp.ret.type # "null") =>
    /\ buildPromptForTrigger(lastOp.ret) # DefaultPrompt
    /\ NamedDirectives(lastOp.ret)

\* a lead's poll has claimed inbox messages and the directive is the default prompt
C31_FailingInput ==
  /\ lastOp.op = "poll"
  /\ lastOp.ret.type = "slack_inbox_message"
  /\ lastOp.ret.msgs # {}
  /\ \A m \in lastOp.ret.msgs : inbox[m].status = "processing"
  /\ buildPromptForTrigger(lastOp.ret) = DefaultPrompt

\* ---------------------------------------------------------------- cancellation
\* C32: cancelTask(taskId, reason) succeeds if and only if the task exists and is
\* pending or in_progress; on success the task is cancelled with the reason and
\* finishedAt recorded and its owner kept; in every other case it returns null and
\* the Store is unchanged. No other task is touched either way.
C32_CancelTaskIff ==
  \A t \in TaskIds, reason \in Reasons :
    LET r == cancelTask(tasks, t, reason, now)
    IN /\ r.ret = {t} <=> tasks[t].status \in {"pending", "in_progress"}
       /\ r.ret \in {{}, {t}}
       /\ r.ret = {t} =>
            /\ r.tasks[t].status = "cancelled"
            /\ r.tasks[t].failureReason = reason
            /\ r.tasks[t].finishedAt = now
            /\ r.tasks[t].agentId = tasks[t].agentId
       /\ r.ret = {} => r.tasks = tasks
       /\ \A u \in TaskIds \ {t} : r.tasks[u] = tasks[u]

\* a task was cancelled with the default reason; cancelling it again returns null
C32_Witness ==
  \E t \in TaskIds :
    /\ tasks[t].status = "cancelled"
    /\ tasks[t].failureReason = DefaultReason
    /\ tasks[t].finishedAt # NoTime
    /\ tasks[t].agentId # NoAgent
    /\ cancelTask(tasks, t, "r1", now) = [ret |-> {}, tasks |-> tasks]

\* ---------------------------------------------------------------- release and reclaim
\* C33: while an agent holds the mention claim on a channel: released without
\* advancing lastReadAt (by releaseMentionProcessing, or by the Reaper once the claim
\* is stale), the agent's next claimMentions returns the channel again; released
\* after updateReadState, claimMentions does not return the channel for as long as no
\* new mention is posted, and returns it once a later mention of the agent is posted.
C33_ReleaseThenReclaim ==
  \A a \in Agents, c \in Channels :
    readState[a][c].processingSince # NoTime =>
      LET Rrel == releaseMentionProcessing(readState, a, {c})
          Rread == releaseMentionProcessing(updateReadState(readState, a, c, now), a, {c})
      IN /\ \A n \in now..MaxTime : c \in claimMentions(Rrel, mentions, a, n).ret
         /\ \A n \in now..MaxTime, timeout \in 0..MaxTimeout :
              <<a, c>> \in StaleMentions(readState, timeout, n) =>
                c \in claimMentions(releaseStaleMentionProcessing(readState, timeout, n),
                                    mentions, a, n).ret
         /\ \A n \in now..MaxTime : c \notin claimMentions(Rread, mentions, a, n).ret
         /\ \A n \in (now + 1)..MaxTime :
              c \in claimMentions(Rread, [mentions EXCEPT ![a][c] = n], a, n).ret

\* a lead holds a claim on a channel whose mention was posted at this very instant,
\* with time left for the Reaper to find it stale and for a later mention
C33_Witness ==
  \E a \in Agents, c \in Channels :
    /\ readState[a][c].processingSince # NoTime
    /\ mentions[a][c] = now
    /\ now < MaxTime
    /\ \E n \in now..MaxTime, timeout \in 0..MaxTimeout :
         <<a, c>> \in StaleMentions(readState, timeout, n)

\* ---------------------------------------------------------------- eventual delivery
\* a record waits for a poll of the agent it is addressed to
OfferWaits(t, a) == tasks[t].status = "offered" /\ tasks[t].offeredTo = a
InboxWaits(m, a) == inbox[m].status = "unread" /\ inbox[m].agentId = a
MentionWaits(a, c) ==
  HasUnreadMention(readState, mentions, a, c) /\ readState[a][c].processingSince = NoTime

\* C34 as stated: for every agent that keeps polling, every offered task, unread
\* inbox message and unread mention addressed to it stops waiting: a poll returns
\* it (claiming it), unless the agent completes it first.
C34_Original ==
  \A a \in LiveAgents :
    /\ \A t \in TaskIds : OfferWaits(t, a) ~> ~OfferWaits(t, a)
    /\ \A m \in MsgIds : InboxWaits(m, a) ~> ~InboxWaits(m, a)
    /\ \A c \in Channels : MentionWaits(a, c) ~> ~MentionWaits(a, c)

\* C34 amended: for every agent that keeps polling, every task offered to it is
\* eventually returned to it or completed; for a lead that keeps polling, so is
\* every unread inbox message and every unread mention addressed to it, as long as
\* records of higher priority stop arriving and stop being released.
C34_EventualDelivery ==
  \A a \in LiveAgents :
    /\ \A t \in TaskIds : OfferWaits(t, a) ~> ~OfferWaits(t, a)
    /\ IsLead(a) => \A m \in MsgIds : InboxWaits(m, a) ~> ~InboxWaits(m, a)
    /\ IsLead(a) => \A c \in Channels : MentionWaits(a, c) ~> ~MentionWaits(a, c)

\* a poll of the lead returns its inbox message after an earlier poll returned the
\* task offered to it
C34_Witness ==
  /\ lastOp.op = "poll"
  /\ IsLead(lastOp.agent)
  /\ lastOp.ret.type = "slack_inbox_message"
  /\ \E m \in lastOp.ret.msgs : inbox[m].status = "processing"
  /\ \E t \in TaskIds : tasks[t].status = "reviewing" /\ tasks[t].offeredTo = lastOp.agent

\* ---------------------------------------------------------------- accept and reject
\* the answers that race for one offer: accept and reject calls in some order
Answers == UNION {[1..k -> {"accept", "reject"}] : k \in 1..MaxCalls}

\* the calls of one interleaving, run one after the other by the offered agent
RECURSIVE AnswerAll(_, _, _, _, _)
AnswerAll(T, t, a, calls, n) ==
  IF calls = <<>> THEN [tasks |-> T, wins |-> 0]
  ELSE LET r == IF Head(calls) = "accept" THEN acceptTask(T, t, a, n)
                ELSE rejectTask(T, t, a, n)
           rest == AnswerAll(r.tasks, t, a, Tail(calls), n)
       IN [tasks |-> rest.tasks, wins |-> rest.wins + Cardinality(r.ret)]

\* C35: for a task offered to an agent (offered or under review), any interleaving
\* of acceptTask and rejectTask calls by that agent has exactly one successful call,
\* the first; the task ends pending with the agent as owner when that call is an
\* accept, unassigned with no offer and no owner when it is a reject; no other task
\* changes.
C35_OneAnswerWins ==
  \A t \in TaskIds, a \in Agents :
    (tasks[t].status \in {"offered", "reviewing"} /\ tasks[t].offeredTo = a) =>
      \A calls \in Answers :
        LET r == AnswerAll(tasks, t, a, calls, now)
        IN /\ r.wins = 1
           /\ Head(calls) = "accept" =>
                r.tasks[t].status = "pending" /\ r.tasks[t].agentId = a
           /\ Head(calls) = "reject" =>
                /\ r.tasks[t].status = "unassigned"
                /\ r.tasks[t].offeredTo = NoAgent
                /\ r.tasks[t].agentId = NoAgent
           /\ \A u \in TaskIds \ {t} : r.tasks[u] = tasks[u]

\* a task is under review by the agent it is offered to, and an accept racing with
\* a reject leaves it pending
C35_Witness ==
  \E t \in TaskIds, a \in Agents :
    /\ tasks[t].status = "reviewing"
    /\ tasks[t].offeredTo = a
    /\ AnswerAll(tasks, t, a, <<"accept", "reject", "accept">>, now).tasks[t].status = "pending"

\* ---------------------------------------------------------------- presence
\* the runner has registered and its Poll Loop has not terminated
LoopRuns == runner.pc \in {"polling", "dispatch", "running", "exited"}

\* C36: between its successful registration and the termination of its Poll Loop
\* the agent of a runner is never recorded as offline, also not after a spawned
\* session has ended and its Stop hook has run.
C36_RunningNeverOffline ==
  LoopRuns => agents[runner.agent].status # "offline"

\* a session has ended, its Stop hook has marked the agent offline, and the runner
\* is polling for the next trigger
C36_FailingInput ==
  /\ runner.pc = "polling"
  /\ runner.spawned > 0
  /\ runner.children = 0
  /\ agents[runner.agent].status = "offline"

\* ---------------------------------------------------------------- slack-reply
\* C37: a slack-reply call with an inboxMessageId that returns success = false
\* (message not found, not the caller's, no Slack context, Slack not configured, or
\* the send failed) leaves the status of the inbox message as it was.
C37_FailedReplyKeepsStatus ==
  \A m \in MsgIds, a \in Agents, hasContext \in BOOLEAN, configured \in BOOLEAN, sent \in BOOLEAN :
    LET r == slackReply(inbox, m, a, hasContext, configured, sent, now)
    IN ~r.success => r.inbox[m].status = inbox[m].status

\* a lead holds the claim on its inbox message; its reply fails in the send, and the
\* message is responded all the same
C37_FailingInput ==
  \E m \in MsgIds :
    /\ inbox[m].status = "processing"
    /\ LET r == slackReply(inbox, m, inbox[m].agentId, TRUE, TRUE, FALSE, now)
       IN ~r.success /\ r.inbox[m].status = "responded"

\* ---------------------------------------------------------------- event window
\* the key's window is open at time n: an occurrence was accepted at most EVENT_TTL ago
InWindow(P, key, n) == P[key] # NoTime /\ n - P[key] <= EVENT_TTL

\* C38: for one event key the handlers accept at most one event per window of
\* EVENT_TTL, measured from the first accepted occurrence: an occurrence inside the
\* window is a duplicate, creates no task and leaves the window's start as it is; an
\* occurrence after the window has elapsed is accepted and starts a new window; the
\* windows of other keys are only closed when they have elapsed.
C38_OneEventPerWindow ==
  /\ [](\A key \in EventKeys : \A n \in now..MaxTime :
         LET d == isDuplicate(processedEvents, key, n)
         IN /\ d.dup <=> InWindow(processedEvents, key, n)
            /\ d.dup => d.processedEvents[key] = processedEvents[key]
            /\ ~d.dup => d.processedEvents[key] = n
            /\ \A k \in EventKeys \ {key} :
                 d.processedEvents[k] =
                   IF InWindow(processedEvents, k, n) THEN processedEvents[k] ELSE NoTime)
  /\ [][(HandlerStep /\ NewTaskRows # {}) =>
          LET key == <<lastOp'.op, lastOp'.ret.type>>
          IN /\ key \in EventKeys
             /\ ~InWindow(processedEvents, key, now)
             /\ processedEvents'[key] = now
             /\ Cardinality(NewTaskRows) = 1]_vars

\* one key's window is in its last instant, so that a repeat now is dropped, while
\* the window of another key has elapsed, so that its next occurrence is accepted
C38_Witness ==
  \E key, old \in EventKeys :
    /\ processedEvents[key] # NoTime
    /\ now - processedEvents[key] = EVENT_TTL
    /\ isDuplicate(processedEvents, key, now).dup
    /\ processedEvents[old] # NoTime
    /\ now - processedEvents[old] > EVENT_TTL
    /\ ~isDuplicate(processedEvents, old, now).dup
    /\ \E t \in TaskIds : tasks[t].status # "absent"

\* ---------------------------------------------------------------- finished tasks
Finished == {"completed", "failed", "cancelled"}

FailedByUnassign(t) ==
  tasks[t].status = "failed" /\ tasks[t].failureReason = CancelReason("unassigned")

\* C40: when the last event processed is an 'assigned' of the bot on the pull
\* request, a task exists that has not been failed by an unassignment.
C40_AssignedLeavesLiveTask ==
  (/\ lastOp.op = "handlePullRequest"
   /\ lastOp.ret.type = "assigned"
   /\ lastOp.ret.count = 1) =>
    \E t \in TaskIds : tasks[t].status # "absent" /\ ~FailedByUnassign(t)

\* assigned, unassigned and assigned again inside the window of the first: the last
\* event was dropped as a duplicate and the only task is the one the unassignment
\* failed
C40_FailingInput ==
  /\ lastOp.op = "handlePullRequest"
  /\ lastOp.ret.type = "assigned"
  /\ lastOp.ret.count = 1
  /\ lastOp.ret.tasks = {}
  /\ InWindow(processedEvents, <<"handlePullRequest", "assigned">>, now)
  /\ \E t \in TaskIds : FailedByUnassign(t)
  /\ \A t \in TaskIds : tasks[t].status # "absent" => FailedByUnassign(t)

====
